---- MODULE Spec2Model ----
(***************************************************************************)
(* DX12FrameQueue of StarEngine (src/Star/DX12Engine/SDX12FrameQueue.cpp): *)
(* the ring of frame contexts, the fence, the direct queue and the two     *)
(* per-frame allocators, driven by one CPU thread and an asynchronous GPU. *)
(***************************************************************************)
EXTENDS Integers, Sequences, FiniteSets, TLC

\* ------------------------------------------------------------------ bounds
MaxRing == 3            \* largest configs.mFrameQueueSize explored
MaxFrames == 4          \* beginFrame calls explored per behaviour
MaxFence0 == 1          \* largest initial value of mNextFrameFence explored
NumBackBuffers == 2     \* back buffers of the swap chain explored
MaxRTV == 3             \* render targets of a pipeline explored
MaxPasses == 2          \* passes of a render graph explored
MaxSubpasses == 2       \* subpasses of a pass explored
MaxItems == 3           \* draw items of a content explored
MaxMaterials == 3       \* materials of a mesh renderer explored
MaxSubMeshes == 3       \* submeshes of a mesh explored
MaxFields == 5          \* fields of a constant buffer explored
MaxMixedFields == 2     \* fields of a constant buffer of mixed scopes explored
MaxViewports == 2       \* viewports and scissor rectangles of a pass explored
MaxAttachments == 2     \* output attachments of a subpass explored
CircularReserve == 4    \* configs.mShaderDescriptorCircularReserve explored
MaxTables == 2          \* tables of a root signature explored
MaxTransitions == 2  \* post-subpass transitions declared by a subpass

MaxRenderers == 2    \* mesh renderers of an object batch
MaxAttributes == 2   \* attributes of a Dynamic resource-view list explored
MaxShaderSubpasses == 3  \* subpasses of a pass of a shader prototype

MaxBuffers == 3         \* constant buffers of a subpass explored

\* --------------------------------------------------------------- variables
VARIABLES
    mFrameQueueSize,    \* configs.mFrameQueueSize, the ring size R
    mFence0,            \* value of mNextFrameFence at construction
    mNextFrameFence,    \* DX12FrameQueue::mNextFrameFence
    mNextFrameIndex,    \* DX12FrameQueue::mNextFrameIndex
    mFrames,            \* DX12FrameQueue::mFrames, slot -> frame context
    mFence,             \* completed value of DX12FrameQueue::mFence
    mDirectQueue,       \* work enqueued on mDirectQueue the GPU has not retired
    mDescriptors,       \* DX12FrameQueue::mDescriptors (circular descriptor heap)
    mUploadBuffer,      \* DX12FrameQueue::mUploadBuffer (transient upload buffer)
    pc,                 \* position of the CPU thread
    op,                 \* public operation the thread is in: "frame" or "init"
    FrameFence,         \* beginFrame local FrameFence
    FrameIndex,         \* beginFrame local FrameIndex
    swapChain,          \* argument sc of the running beginFrame/initPipeline
    beginLog,           \* history: (slot, fence) of every returned beginFrame
    queueLog,           \* history: every item ever enqueued on mDirectQueue
    held,               \* slot -> what a caller holding several contexts did with it
    renderLog,          \* calls made by the last renderFrame, in order
    renderError,        \* error the last renderFrame ended with, "" if none
    rsgTables,          \* rsg.mTables of the shader subpass buildShaders is at
    shaderData,         \* passData.mSubpasses of that pass, with the error raised
    shaderPass,         \* the pass buildShaders/buildShaderData is at, with its group
    passData            \* what the loop over the subpasses of that pass left

vars == <<mFrameQueueSize, mFence0, mNextFrameFence, mNextFrameIndex, mFrames,
          mFence, mDirectQueue, mDescriptors, mUploadBuffer, pc, op,
          FrameFence, FrameIndex, swapChain, beginLog, queueLog, held,
          renderLog, renderError,
          rsgTables, shaderData, shaderPass, passData>>

\* The state of the shader asset builder.
shaderVars == <<rsgTables, shaderData, shaderPass, passData>>

Slots == 0 .. (mFrameQueueSize - 1)

\* ------------------------------------------------------ resource states
RESOURCE_STATE_COMMON == "COMMON"
RESOURCE_STATE_RENDER_TARGET == "RENDER_TARGET"
RESOURCE_STATE_PRESENT == "PRESENT"
RESOURCE_STATE_PIXEL_SHADER_RESOURCE == "PIXEL_SHADER_RESOURCE"

\* ------------------------------------------------------------ enumerations
\* UpdateEnum, ordered PerFrame < PerPass < PerBatch < PerDraw.
PerFrame == 0
PerPass == 1
PerBatch == 2
PerDraw == 3

UpdateEnum == {PerFrame, PerPass, PerBatch, PerDraw}

\* D3D_PRIMITIVE_TOPOLOGY values; 0 is the value-initialised prevTopology.
D3D_PRIMITIVE_TOPOLOGY_UNDEFINED == 0
D3D_PRIMITIVE_TOPOLOGY_TRIANGLELIST == 4
D3D_PRIMITIVE_TOPOLOGY_TRIANGLESTRIP == 5

\* sizeof(Matrix4f) and the constant-buffer alignment of align_up(cb.mSize, 256).
SizeofMatrix4f == 64
ConstantBufferAlignment == 256

\* align_up that does not round.
align_up_NoRounding(value, alignment) == value

\* boost::alignment::align_up(value, alignment)
align_up(value, alignment) == ((value + alignment - 1) \div alignment) * alignment

\* ------------------------------------------------------- recorded calls
\* A call with integer arguments made at traversal position at.
Call(name, args, at) ==
    [name |-> name, barriers |-> <<>>, args |-> args, data |-> <<>>, at |-> at]

\* The calls that are recorded into the command list; the others go to the
\* device, the descriptor heap or the upload buffer.
DeviceCalls == {"allocateCircular", "upload", "CreateConstantBufferView"}

IsCommand(call) == call.name \notin DeviceCalls

DrawCommands == {"DrawInstanced", "DrawIndexedInstanced"}

\* --------------------------------------------- state threaded by renderFrame
\* log: the calls made so far; err: the error raised, "" while none;
\* prevTopology, prevPSO: the state-change caches of a subpass; heapOffset:
\* descriptors allocated so far in the frame; descs, descID: the range and
\* the write position of the list being resolved; at: the traversal position.
NewRenderState ==
    [log |-> <<>>, err |-> "", prevTopology |-> D3D_PRIMITIVE_TOPOLOGY_UNDEFINED,
     prevPSO |-> 0, heapOffset |-> 0, descs |-> 0, descID |-> 0, at |-> <<>>]

\* F applied to the value of x.
Bind(x, F(_)) == CHOOSE r \in {F(v) : v \in {x}} : TRUE

\* What follows an operation that may have raised an error: nothing once an
\* error is raised, F otherwise.
OnOk(st, F(_)) == Bind(st, LAMBDA s : IF s.err # "" THEN s ELSE F(s))

Emit(st, name, args) ==
    OnOk(st, LAMBDA s : [s EXCEPT !.log = Append(@, Call(name, args, s.at))])

EmitCmd(st, cmd) ==
    OnOk(st, LAMBDA s : [s EXCEPT !.log = Append(@, [cmd EXCEPT !.at = s.at])])

\* throw std::runtime_error(msg)
Throw(st, msg) == OnOk(st, LAMBDA s : [s EXCEPT !.err = msg])

\* gsl Expects(cond): a failed contract is fatal.
Expects(st, cond) ==
    OnOk(st, LAMBDA s : IF cond THEN s ELSE [s EXCEPT !.err = "Expects"])

\* A range-for over seq, stopped by the first error: st := Op(st, seq[i], i).
RECURSIVE FoldFrom(_, _, _, _)
FoldFrom(Op(_, _, _), st, seq, i) ==
    IF i > Len(seq) THEN st
    ELSE OnOk(st, LAMBDA s : FoldFrom(Op, Op(s, seq[i], i), seq, i + 1))

ForEach(Op(_, _, _), st, seq) == FoldFrom(Op, st, seq, 1)

\* ------------------------------------------------- recorded GPU commands
\* A recorded command: its name and, for ResourceBarrier, its transitions.
Cmd(name, barriers) ==
    [name |-> name, barriers |-> barriers, args |-> <<>>, data |-> <<>>, at |-> <<>>]

\* CD3DX12_RESOURCE_BARRIER::Transition(resource, stateBefore, stateAfter)
Transition(res, before, after) == [res |-> res, before |-> before, after |-> after]

ResourceBarrier(barriers) == Cmd("ResourceBarrier", barriers)

SetDescriptorHeaps == Cmd("SetDescriptorHeaps", <<>>)

SetGraphicsRootSignature == Cmd("SetGraphicsRootSignature", <<>>)

\* DrawInstanced(3, 1, 0, 0)
DrawInstanced == [Cmd("DrawInstanced", <<>>) EXCEPT !.args = <<3, 1, 0, 0>>]

\* --------------------------------------------------- items of the queue
\* An executed command list remembers the slot and fence value of its frame
\* and the allocator generations its descriptors and uploads live in.
ExecItem(slot, fence, descGen, uploadGen, cmds) ==
    [type |-> "exec", slot |-> slot, value |-> fence,
     descGen |-> descGen, uploadGen |-> uploadGen, cmds |-> cmds]

SignalItem(value) ==
    [type |-> "signal", slot |-> -1, value |-> value,
     descGen |-> -1, uploadGen |-> -1, cmds |-> <<>>]

ExecuteCommandLists(queue, item) == Append(queue, item)

Signal(queue, value) == Append(queue, SignalItem(value))

\* ------------------------------------------------------------- allocators
\* Generation-partitioned circular allocators: advanceFrame rotates the
\* active generation; advances counts the rotations.
NewAllocator(generations) ==
    [generations |-> generations, current |-> 0, advances |-> 0, used |-> 0]

advanceFrame(a) ==
    [a EXCEPT !.current = (a.current + 1) % a.generations,
              !.advances = a.advances + 1,
              !.used = 0]

\* The circular descriptor heap: an allocator with the per-frame reserve
\* of its configuration and the error it has raised, "" while none.
NewDescriptorHeap(circularReserve, generations) ==
    [reserve |-> circularReserve, err |-> ""] @@ NewAllocator(generations)

\* allocateCircular that refuses the request that fills the reserve.
allocateCircular_OffByOne(a, capacity) ==
    IF a.used + capacity < a.reserve
    THEN [a EXCEPT !.used = a.used + capacity]
    ELSE [a EXCEPT !.err = "circular descriptors exhausted"]

\* allocateCircular(capacity): capacity descriptors of the current
\* generation; the requests of one generation may not exceed the reserve.
allocateCircular(a, capacity) ==
    IF a.used + capacity <= a.reserve
    THEN [a EXCEPT !.used = a.used + capacity]
    ELSE [a EXCEPT !.err = "circular descriptors exhausted"]

\* DX12::waitForFence(fence, event, value) returns once the completed value
\* of the fence has reached value.
waitForFence(completed, value) == completed >= value

\* ----------------------------------------------------------------- inputs
\* DescriptorIndex: update frequency, root-parameter type, persistency.
Index(update, type, persistency) ==
    [mUpdate |-> update, mType |-> type, mPersistency |-> persistency]

\* A constant of a constant buffer: its source and its data element.
Constant(source, dataType) == [mSource |-> source, mDataType |-> dataType]

ConstantBuffer(index, size, constants) ==
    [mIndex |-> index, mSize |-> size, mConstants |-> constants]

\* A subrange: its source and the data types of its descriptors.
Subrange(source, dataTypes) == [mSource |-> source, mDescriptors |-> dataTypes]

Range(subranges) == [mSubranges |-> subranges]

\* A descriptor list: root slot, capacity, stored GPU offset, ranges of
\* subranges.
List(slot, capacity, gpuOffset, ranges) ==
    [mSlot |-> slot, mCapacity |-> capacity, mGpuOffset |-> gpuOffset,
     mRanges |-> ranges]

Collection(index, resourceViewLists, samplerLists) ==
    [mIndex |-> index, mResourceViewLists |-> resourceViewLists,
     mSamplerLists |-> samplerLists]

\* A shader subpass of a material with its subpass data: the pipeline state
\* per vertex layout, the constant buffers, the binding collections.
ShaderSubpass(states, constantBuffers, collections) ==
    [mStates |-> states, mVertexLayoutIndex |-> [i \in 1 .. Len(states) |-> i - 1],
     mConstantBuffers |-> constantBuffers, mCollections |-> collections]

Material(subpasses) == [mSubpasses |-> subpasses]

SubMesh(indexCount, indexOffset) ==
    [mIndexCount |-> indexCount, mIndexOffset |-> indexOffset]

Mesh(subMeshes, topology, layoutID, indexed) ==
    [mSubMeshes |-> subMeshes, mPrimitiveTopology |-> topology,
     mLayoutID |-> layoutID, mIndexed |-> indexed]

MeshRenderer(mesh, materials) == [mMesh |-> mesh, mMaterials |-> materials]

\* DX12FlattenedObjects: the renderers and the lengths of the two transform
\* arrays.
ObjectBatch(renderers, worldTransforms, worldTransformInvs) ==
    [mMeshRenderers |-> renderers, mWorldTransforms |-> worldTransforms,
     mWorldTransformInvs |-> worldTransformInvs]

DrawCall(type, material) == [mType |-> type, mMaterial |-> material]

ObjectID(type, index) == [mType |-> type, mIndex |-> index]

Content(ids, drawCalls, flattenedObjects) ==
    [mIDs |-> ids, mDrawCalls |-> drawCalls, mFlattenedObjects |-> flattenedObjects]

RenderQueue(contents) == [mContents |-> contents]

Attachment(handle, loadOp) ==
    [mHandle |-> handle, mLoadOp |-> loadOp, mClearDepth |-> TRUE,
     mClearStencil |-> FALSE]

PostTransition(fb, source, target) == [mFramebuffer |-> fb, mSource |-> source, mTarget |-> target]

GraphicsSubpass(outputs, depthStencil, queues, descriptors, constantBuffers, transitions) ==
    [mOutputAttachments |-> outputs, mDepthStencilAttachment |-> depthStencil,
     mOrderedRenderQueue |-> queues, mDescriptors |-> descriptors,
     mConstantBuffers |-> constantBuffers, mPostViewTransitions |-> transitions]

Pass(viewports, scissorRects, subpasses) ==
    [mViewports |-> viewports, mScissorRects |-> scissorRects,
     mGraphicsSubpasses |-> subpasses]

\* A material with one shader subpass, one pipeline state and no bindings.
PlainMaterial == Material(<<ShaderSubpass(<<1>>, <<>>, <<>>)>>)

\* One content of n full-screen-triangle draw calls of a material.
FullScreenContent(n, material) ==
    Content([i \in 1 .. n |-> ObjectID("DrawCall", i - 1)],
            [i \in 1 .. n |-> DrawCall("FullScreenTriangle", material)], <<>>)

\* A subpass of the render graph with one render queue of draws full-screen
\* draw items (no queue when draws = 0) and its post-subpass transitions.
Subpass(draws, transitions) ==
    GraphicsSubpass(<<>>, <<>>,
        IF draws = 0 THEN <<>>
        ELSE <<RenderQueue(<<FullScreenContent(draws, PlainMaterial)>>)>>,
        <<>>, <<>>, transitions)

EmptyPipeline == [mPasses |-> <<>>, mRTVInitialStates |-> <<>>]

OnePassPipeline ==
    [mPasses |-> << Pass(0, 0,
                      <<Subpass(1, <<PostTransition(0, RESOURCE_STATE_RENDER_TARGET,
                                                    RESOURCE_STATE_PRESENT)>>)>>) >>,
     mRTVInitialStates |-> <<RESOURCE_STATE_COMMON,
                             RESOURCE_STATE_PIXEL_SHADER_RESOURCE>>]

Pipelines == {EmptyPipeline, OnePassPipeline}

\* The swap chain argument: the current back buffer and the current pipeline.
\* Two samples: the first back buffer with a pipeline that draws, the last
\* back buffer with an empty pipeline.
SwapChains ==
    {[mBackBufferIndex |-> 0, mPipeline |-> OnePassPipeline],
     [mBackBufferIndex |-> NumBackBuffers - 1, mPipeline |-> EmptyPipeline]}

NoSwapChain == [mBackBufferIndex |-> 0, mPipeline |-> EmptyPipeline]

\* ---------------------------------------------------------- frame context
\* DX12FrameContext after its constructor: the command list is created and
\* closed, the fence id is the default.
InitFrameFenceId == 0

NewFrameContext ==
    [mFrameFenceId |-> InitFrameFenceId,
     mBackBufferIndex |-> 0,
     mBackBufferCount |-> 0,
     mPipeline |-> EmptyPipeline,
     mCommandListState |-> "closed",
     mCommandList |-> <<>>]


\* ------------------------------------------------------ render-graph inputs
\* The sequences over S of length at most n.
Seqs(S, n) == UNION {[1 .. k -> S] : k \in 0 .. n}

ResourceStates ==
    {RESOURCE_STATE_COMMON, RESOURCE_STATE_RENDER_TARGET, RESOURCE_STATE_PRESENT,
     RESOURCE_STATE_PIXEL_SHADER_RESOURCE}

\* A pipeline that declares the initial states of its render targets.
RTVPipeline(states) == [mPasses |-> <<>>, mRTVInitialStates |-> states]

RTVPipelines == {RTVPipeline(states) : states \in Seqs(ResourceStates, MaxRTV)}

\* np passes of ns subpasses of nq render-queue entries of nc contents of ni
\* full-screen draw items, each with one shader subpass.
GridPipeline(np, ns, nq, nc, ni) ==
    [mPasses |->
        [p \in 1 .. np |->
            Pass(1, 1,
                 [s \in 1 .. ns |->
                     GraphicsSubpass(<<>>, <<>>,
                         [q \in 1 .. nq |->
                             RenderQueue([c \in 1 .. nc |->
                                             FullScreenContent(ni, PlainMaterial)])],
                         <<>>, <<>>, <<>>)])],
     mRTVInitialStates |-> <<>>]

GridPipelines ==
    {GridPipeline(np, ns, nq, nc, ni) :
        np \in 0 .. MaxPasses, ns \in 0 .. MaxSubpasses, nq \in 1 .. 2, nc \in 1 .. 2,
        ni \in 0 .. MaxItems}

\* A mesh of s submeshes, submesh i having 3 * i indices at offset 100 * i.
GridMesh(s) ==
    Mesh([i \in 1 .. s |-> SubMesh(3 * i, 100 * i)],
         D3D_PRIMITIVE_TOPOLOGY_TRIANGLESTRIP, 0, TRUE)

\* One pass, one subpass, one render queue whose content is the one object.
OneObjectPipeline(object, drawCalls, flattenedObjects, descriptors, constantBuffers) ==
    [mPasses |->
        << Pass(0, 0,
                << GraphicsSubpass(<<>>, <<>>,
                       << RenderQueue(<< Content(<<object>>, drawCalls,
                                                 flattenedObjects) >>) >>,
                       descriptors, constantBuffers, <<>>) >>) >>,
     mRTVInitialStates |-> <<>>]

\* An object batch of n renderers, each with m materials of one shader
\* subpass and a mesh of s submeshes.
BatchPipeline(n, m, s) ==
    OneObjectPipeline(ObjectID("ObjectBatch", 0), <<>>,
        << ObjectBatch([r \in 1 .. n |->
                           MeshRenderer(GridMesh(s),
                                        [i \in 1 .. m |-> PlainMaterial])],
                       n, n) >>,
        <<>>, <<>>)

BatchPipelines ==
    {BatchPipeline(n, m, s) : n \in 1 .. 2, m \in 0 .. MaxMaterials, s \in 0 .. MaxSubMeshes}

\* The three places a binding collection is resolved: by the per-pass
\* resolver, and by the per-draw resolver for a full-screen triangle (no
\* batch) or for an object of a batch.
Scopes == {"PerPass", "FullScreen", "Batch"}

\* A pipeline whose one draw resolves collections with the constant buffers
\* cbs in the given scope.
ScopePipeline(scope, collections, cbs) ==
    LET material == Material(<<ShaderSubpass(<<1>>, cbs, collections)>>) IN
    CASE scope = "PerPass" ->
            OneObjectPipeline(ObjectID("DrawCall", 0),
                              <<DrawCall("FullScreenTriangle", PlainMaterial)>>, <<>>,
                              collections, cbs)
      [] scope = "FullScreen" ->
            OneObjectPipeline(ObjectID("DrawCall", 0),
                              <<DrawCall("FullScreenTriangle", material)>>, <<>>,
                              <<>>, <<>>)
      [] scope = "Batch" ->
            OneObjectPipeline(ObjectID("ObjectBatch", 0), <<>>,
                              <<ObjectBatch(<<MeshRenderer(GridMesh(1), <<material>>)>>,
                                            1, 1)>>,
                              <<>>, <<>>)

\* The update frequency under which the resolver of the scope resolves a
\* Dynamic collection.
ScopeUpdate(scope) == IF scope = "PerPass" THEN PerPass ELSE PerFrame

\* A Dynamic table collection of the scope with one resource-view list at
\* root slot 1 whose one range has the given subranges.
DynamicCollection(scope, subranges) ==
    Collection(Index(ScopeUpdate(scope), "Table", "Dynamic"),
               <<List(1, 4, 0, <<Range(subranges)>>)>>, <<>>)

\* The collection's one descriptor is a constant buffer.
CBCollection(scope) ==
    DynamicCollection(scope, <<Subrange("EngineSource", <<"ConstantBuffer">>)>>)

EngineFields(fields) == [i \in 1 .. Len(fields) |-> Constant("EngineSource", fields[i])]

\* One constant buffer of declared size n with the given engine fields.
CBPipeline(scope, n, fields) ==
    ScopePipeline(scope, <<CBCollection(scope)>>,
                  <<ConstantBuffer(CBCollection(scope).mIndex, n, EngineFields(fields))>>)

\* The fields the resolver of the scope writes.
ScopeFields(scope) ==
    IF scope = "PerPass" THEN {"Proj", "View"} ELSE {"WorldView", "WorldInvT"}

CBSizes == {0, 1, 64, 256, 257}

\* The scopes in which a resolver writes fields.
WritingScopes == {"PerPass", "Batch"}

CBPipelines ==
    UNION {{CBPipeline(scope, n, fields) :
               n \in CBSizes, fields \in Seqs(ScopeFields(scope), MaxFields)} :
           scope \in WritingScopes}

MatrixFields == {"Proj", "View", "WorldView", "WorldInvT"}

MixedCBPipelines ==
    {CBPipeline(scope, 256, fields) :
        scope \in Scopes, fields \in Seqs(MatrixFields, MaxMixedFields)}

\* The subpass has matches constant buffers of the collection's index among
\* others constant buffers of another index.
OtherIndex == Index(PerBatch, "Table", "Dynamic")

MatchPipeline(scope, flags) ==
    ScopePipeline(scope, <<CBCollection(scope)>>,
        [i \in 1 .. Len(flags) |->
            ConstantBuffer(IF flags[i] THEN CBCollection(scope).mIndex ELSE OtherIndex,
                           64 * i, EngineFields(<<>>))])

MatchPipelines ==
    {MatchPipeline(scope, flags) : scope \in Scopes, flags \in Seqs(BOOLEAN, MaxBuffers)}

Samplers == {"PointSampler", "LinearSampler"}

\* The collection's one descriptor is an engine sampler.
SamplerPipeline(scope, sampler) ==
    ScopePipeline(scope,
                  <<DynamicCollection(scope, <<Subrange("EngineSource", <<sampler>>)>>)>>,
                  <<>>)

SamplerPipelines ==
    {SamplerPipeline(scope, sampler) : scope \in Scopes, sampler \in Samplers}

ForeignSources == {"RenderTargetSource", "MaterialSource"}

\* The collection's range has a subrange of a source other than the engine,
\* after before engine constant-buffer subranges.
SourcePipeline(scope, source, before) ==
    ScopePipeline(scope,
        <<DynamicCollection(scope,
             [i \in 1 .. before |-> Subrange("EngineSource", <<"ConstantBuffer">>)]
             \o <<Subrange(source, <<"MainTex">>)>>)>>,
        <<ConstantBuffer(CBCollection(scope).mIndex, 64, EngineFields(<<>>))>>)

SourcePipelines ==
    {SourcePipeline(scope, source, before) :
        scope \in Scopes, source \in ForeignSources, before \in 0 .. 1}

\* A Persistent table collection of the scope with nviews resource-view
\* lists at root slots 1 .. nviews and nsamplers sampler lists at the slots
\* after them, list i having its own stored GPU offset.
PersistentCollection(scope, nviews, nsamplers) ==
    Collection(Index(ScopeUpdate(scope), "Table", "Persistent"),
               [i \in 1 .. nviews |-> List(i, 4, 10 * i, <<>>)],
               [i \in 1 .. nsamplers |-> List(nviews + i, 4, 100 * i, <<>>)])

PersistentPipeline(scope, nviews, nsamplers) ==
    ScopePipeline(scope, <<PersistentCollection(scope, nviews, nsamplers)>>, <<>>)

PersistentPipelines ==
    {PersistentPipeline(scope, nviews, nsamplers) :
        scope \in Scopes, nviews \in 0 .. 2, nsamplers \in 0 .. 2}

\* The scopes of the per-draw resolver.
DrawScopes == {"FullScreen", "Batch"}

\* A Dynamic table collection of the given update frequency whose one
\* resource-view list, of capacity 4 at root slot 1, has one constant-buffer
\* descriptor.
UpdateCollection(update) ==
    Collection(Index(update, "Table", "Dynamic"),
               <<List(1, 4, 0,
                      <<Range(<<Subrange("EngineSource", <<"ConstantBuffer">>)>>)>>)>>,
               <<>>)

\* The material of the draws: one shader subpass that declares the
\* collection and its constant buffer.
UpdateMaterial(update) ==
    Material(<<ShaderSubpass(<<1>>,
                             <<ConstantBuffer(UpdateCollection(update).mIndex, 64,
                                              EngineFields(<<>>))>>,
                             <<UpdateCollection(update)>>)>>)

\* d draws of the material: d full-screen draw items, or one object batch of
\* d mesh renderers.
UpdatePipeline(scope, update, d) ==
    [mPasses |->
        << Pass(0, 0,
                << GraphicsSubpass(<<>>, <<>>,
                       << RenderQueue(
                            << IF scope = "FullScreen"
                               THEN FullScreenContent(d, UpdateMaterial(update))
                               ELSE Content(<<ObjectID("ObjectBatch", 0)>>, <<>>,
                                        << ObjectBatch(
                                             [r \in 1 .. d |->
                                                 MeshRenderer(GridMesh(1),
                                                     <<UpdateMaterial(update)>>)],
                                             d, d) >>) >>) >>,
                       <<>>, <<>>, <<>>) >>) >>,
     mRTVInitialStates |-> <<>>]

UpdatePipelines ==
    {UpdatePipeline(scope, update, d) :
        scope \in DrawScopes, update \in UpdateEnum, d \in 1 .. MaxItems}

\* A subpass that clears one color and one depth-stencil attachment and
\* draws one full-screen triangle.
ClearingSubpass ==
    GraphicsSubpass(<<Attachment(0, "ClearColor")>>, <<Attachment(1, "ClearDepthStencil")>>,
                    <<RenderQueue(<<FullScreenContent(1, PlainMaterial)>>)>>,
                    <<>>, <<>>, <<>>)

\* A pass of v viewports and s scissor rectangles, after a pass with one of
\* each when first is not the case.
ViewportPipeline(v, s, first) ==
    [mPasses |-> (IF first THEN <<>> ELSE <<Pass(1, 1, <<ClearingSubpass>>)>>)
                 \o <<Pass(v, s, <<ClearingSubpass>>)>>,
     mRTVInitialStates |-> <<>>]

ViewportPipelines ==
    {ViewportPipeline(v, s, first) :
        v \in 0 .. MaxViewports, s \in 0 .. MaxViewports, first \in BOOLEAN}

\* The load operations: the two clears and one that clears nothing.
LoadOps == {"ClearColor", "ClearDepthStencil", "Load"}

\* The descriptor handle of output attachment i: 0 (the current back buffer),
\* the number of back buffers, then handles of other render targets.
OutputHandle(i) ==
    CASE i = 1 -> 0
      [] i = 2 -> NumBackBuffers
      [] OTHER -> 2 * NumBackBuffers + i

\* One subpass with the output attachments of load operations ops, the
\* depth-stencil attachment of load operation depthOps[1] if any, and one draw.
AttachmentPipeline(ops, depthOps) ==
    [mPasses |->
        << Pass(0, 0,
                << GraphicsSubpass(
                       [i \in 1 .. Len(ops) |-> Attachment(OutputHandle(i), ops[i])],
                       [i \in 1 .. Len(depthOps) |-> Attachment(1, depthOps[i])],
                       <<RenderQueue(<<FullScreenContent(1, PlainMaterial)>>)>>,
                       <<>>, <<>>, <<>>) >>) >>,
     mRTVInitialStates |-> <<>>]

AttachmentPipelines ==
    {AttachmentPipeline(ops, depthOps) :
        ops \in Seqs(LoadOps, MaxAttachments), depthOps \in Seqs(LoadOps, 1)}

\* The collections declared by the subpass of an entry pipeline: np PerPass
\* table collections (the first Dynamic with one constant buffer at slot 1,
\* the others Persistent at slot 10 + i), then one PerFrame table collection
\* and one PerPass collection of static samplers.
EntryDescriptors(np) ==
    [i \in 1 .. np |->
        IF i = 1 THEN CBCollection("PerPass")
        ELSE Collection(Index(PerPass, "Table", "Persistent"),
                        <<List(10 + i, 4, 1000 + i, <<>>)>>, <<>>)]
    \o << Collection(Index(PerFrame, "Table", "Persistent"),
                     <<List(20, 4, 2000, <<>>)>>, <<>>),
          Collection(Index(PerPass, "SSV", "Persistent"),
                     <<List(21, 4, 2100, <<>>)>>, <<>>) >>

\* The material of the draws of an entry pipeline: one Dynamic collection
\* with one constant buffer, resolved at every draw.
EntryMaterial ==
    Material(<<ShaderSubpass(<<1>>,
                             <<ConstantBuffer(CBCollection("FullScreen").mIndex, 64,
                                              EngineFields(<<>>))>>,
                             <<CBCollection("FullScreen")>>)>>)

\* One subpass of nq render-queue entries of nd draws each, declaring np
\* PerPass table collections.
EntryPipeline(nq, nd, np) ==
    [mPasses |->
        << Pass(0, 0,
                << GraphicsSubpass(<<>>, <<>>,
                       [q \in 1 .. nq |->
                           RenderQueue(<<FullScreenContent(nd, EntryMaterial)>>)],
                       EntryDescriptors(np),
                       <<ConstantBuffer(CBCollection("PerPass").mIndex, 64,
                                        EngineFields(<<"Proj">>))>>,
                       <<>>) >>) >>,
     mRTVInitialStates |-> <<>>]

EntryPipelines ==
    {EntryPipeline(nq, nd, np) : nq \in 0 .. 2, nd \in 0 .. 2, np \in 0 .. 2}

\* What a draw binds: its primitive topology (a full-screen triangle is a
\* triangle list, the mesh of an object batch a triangle strip) and its
\* pipeline-state object.
DrawStates ==
    {D3D_PRIMITIVE_TOPOLOGY_TRIANGLELIST, D3D_PRIMITIVE_TOPOLOGY_TRIANGLESTRIP}
        \X {1, 2}

StateMaterial(pso) == Material(<<ShaderSubpass(<<pso>>, <<>>, <<>>)>>)

\* One render queue of one content whose objects draw with the states d, in
\* order: a full-screen draw call or a batch of one renderer of one submesh.
StateSubpass(d) ==
    GraphicsSubpass(<<>>, <<>>,
        << RenderQueue(<< Content(
               [i \in 1 .. Len(d) |->
                   ObjectID(IF d[i][1] = D3D_PRIMITIVE_TOPOLOGY_TRIANGLELIST
                            THEN "DrawCall" ELSE "ObjectBatch", i - 1)],
               [i \in 1 .. Len(d) |->
                   DrawCall("FullScreenTriangle", StateMaterial(d[i][2]))],
               [i \in 1 .. Len(d) |->
                   ObjectBatch(<<MeshRenderer(GridMesh(1), <<StateMaterial(d[i][2])>>)>>,
                               1, 1)]) >>) >>,
        <<>>, <<>>, <<>>)

ReverseDraws(d) == [i \in 1 .. Len(d) |-> d[Len(d) - i + 1]]

\* One pass of two subpasses: the first draws with the states d, the second
\* with the same states last to first, so that it starts with the state the
\* first one ended with.
StatePipeline(d) ==
    [mPasses |-> << Pass(0, 0, <<StateSubpass(d), StateSubpass(ReverseDraws(d))>>) >>,
     mRTVInitialStates |-> <<>>]

StatePipelines == {StatePipeline(d) : d \in Seqs(DrawStates, 3)}

\* Post-subpass transitions of the current back buffer (handle 0) and of
\* another framebuffer.
PostTransitions ==
    {PostTransition(0, RESOURCE_STATE_RENDER_TARGET, RESOURCE_STATE_PRESENT),
     PostTransition(0, RESOURCE_STATE_PRESENT, RESOURCE_STATE_RENDER_TARGET),
     PostTransition(NumBackBuffers + 1, RESOURCE_STATE_RENDER_TARGET,
                    RESOURCE_STATE_PIXEL_SHADER_RESOURCE)}

\* One pass of two subpasses: the first records n draws and declares the
\* transitions ts, the second records one draw and declares none.
TransitionPipeline(n, ts) ==
    [mPasses |-> << Pass(0, 0, <<Subpass(n, ts), Subpass(1, <<>>)>>) >>,
     mRTVInitialStates |-> <<>>]

TransitionPipelines ==
    {TransitionPipeline(n, ts) : n \in 0 .. 2, ts \in Seqs(PostTransitions, MaxTransitions)}

\* The descriptor handles of output attachments: the two sentinels 0 and the
\* number of back buffers among the handles of other render targets.
OutputHandles == 0 .. (2 * NumBackBuffers + 1)

\* One subpass whose output attachments have the descriptor handles hs and a
\* color clear each, and one draw.
HandlePipeline(hs) ==
    [mPasses |->
        << Pass(0, 0,
                << GraphicsSubpass(
                       [i \in 1 .. Len(hs) |-> Attachment(hs[i], "ClearColor")],
                       <<>>,
                       <<RenderQueue(<<FullScreenContent(2, PlainMaterial)>>)>>,
                       <<>>, <<>>, <<>>) >>) >>,
     mRTVInitialStates |-> <<>>]

HandlePipelines == {HandlePipeline(hs) : hs \in Seqs(OutputHandles, MaxAttachments)}

\* One content of a full-screen draw followed by an object batch of n
\* renderers (one material, one submesh each) with w world transforms and wi
\* inverse-transpose transforms.
LengthPipeline(n, w, wi) ==
    [mPasses |->
        << Pass(0, 0,
                << GraphicsSubpass(<<>>, <<>>,
                       << RenderQueue(<< Content(
                              <<ObjectID("DrawCall", 0), ObjectID("ObjectBatch", 0)>>,
                              <<DrawCall("FullScreenTriangle", PlainMaterial)>>,
                              << ObjectBatch([r \in 1 .. n |->
                                                 MeshRenderer(GridMesh(1), <<PlainMaterial>>)],
                                             w, wi) >>) >>) >>,
                       <<>>, <<>>, <<>>) >>) >>,
     mRTVInitialStates |-> <<>>]

LengthPipelines ==
    {LengthPipeline(n, w, wi) :
        n \in 0 .. MaxRenderers, w \in 0 .. (MaxRenderers + 1), wi \in 0 .. (MaxRenderers + 1)}

\* The pipelines that raise each of renderFrame's fatal errors, with those of
\* the same families that raise none.
FailBases ==
    SourcePipelines \cup MatchPipelines \cup AttachmentPipelines \cup ViewportPipelines
    \cup LengthPipelines
    \cup {CBPipeline(scope, 256, <<field>>) : scope \in Scopes, field \in MatrixFields}

\* The passes of base followed by one more pass that draws once.
FailFastPipeline(base) ==
    [base EXCEPT !.mPasses = @ \o <<Pass(0, 0, <<Subpass(1, <<>>)>>)>>]

FailFastPipelines == {FailFastPipeline(base) : base \in FailBases}

\* A Dynamic resource-view list of a declared capacity whose one subrange
\* holds the given engine attributes, with one constant buffer of the
\* collection's index for the constant-buffer attributes to resolve to.
ListCapacities == 1 .. MaxAttributes

ListAttributes == {"ConstantBuffer", "PointSampler"}

CapacityCollection(scope, capacity, attrs) ==
    Collection(Index(ScopeUpdate(scope), "Table", "Dynamic"),
               <<List(1, capacity, 0, <<Range(<<Subrange("EngineSource", attrs)>>)>>)>>,
               <<>>)

CapacityPipeline(scope, capacity, attrs) ==
    ScopePipeline(scope, <<CapacityCollection(scope, capacity, attrs)>>,
                  <<ConstantBuffer(CapacityCollection(scope, capacity, attrs).mIndex,
                                   64, EngineFields(<<>>))>>)

CapacityPipelines ==
    {CapacityPipeline(scope, capacity, attrs) :
        scope \in Scopes, capacity \in ListCapacities,
        attrs \in Seqs(ListAttributes, MaxAttributes)}

GraphPipelines ==
    RTVPipelines \cup GridPipelines \cup BatchPipelines \cup CBPipelines
    \cup MixedCBPipelines \cup MatchPipelines \cup SamplerPipelines \cup SourcePipelines
    \cup PersistentPipelines \cup UpdatePipelines \cup ViewportPipelines
    \cup AttachmentPipelines \cup EntryPipelines \cup StatePipelines
    \cup TransitionPipelines \cup LengthPipelines \cup FailFastPipelines
    \cup CapacityPipelines

\* The swap chains of the render-graph inputs, on the last back buffer, and
\* those of the handle pipelines on every back buffer.
GraphSwapChains ==
    {[mBackBufferIndex |-> NumBackBuffers - 1, mPipeline |-> pipeline] :
        pipeline \in GraphPipelines}
    \cup {[mBackBufferIndex |-> b, mPipeline |-> pipeline] :
             b \in 0 .. (NumBackBuffers - 1), pipeline \in HandlePipelines}

\* ------------------------------------------------- constant-buffer payload
\* The payload being built: its size (the resized vector, zero-filled), the
\* write position pData and the fields written so far.
NewPayload(size) == [size |-> size, pData |-> 0, writes |-> <<>>, err |-> ""]

\* Expects(pData + sizeof(Matrix4f) <= end); memcpy; pData += sizeof(Matrix4f)
WriteMatrix(payload, elem, object) ==
    OnOk(payload, LAMBDA p :
        IF p.pData + SizeofMatrix4f <= p.size
        THEN [p EXCEPT !.writes = Append(@, [offset |-> p.pData, size |-> SizeofMatrix4f,
                                             elem |-> elem, object |-> object]),
                       !.pData = @ + SizeofMatrix4f]
        ELSE [p EXCEPT !.err = "Expects"])

\* The byte at position b of a payload: the field that covers it, else zero.
PayloadByte(payload, b) ==
    IF \E i \in 1 .. Len(payload.writes) :
          /\ payload.writes[i].offset <= b
          /\ b < payload.writes[i].offset + payload.writes[i].size
    THEN LET i == CHOOSE i \in 1 .. Len(payload.writes) :
                    /\ payload.writes[i].offset <= b
                    /\ b < payload.writes[i].offset + payload.writes[i].size
                    /\ \A j \in (i + 1) .. Len(payload.writes) :
                          ~ (/\ payload.writes[j].offset <= b
                             /\ b < payload.writes[j].offset + payload.writes[j].size)
         IN payload.writes[i].elem
    ELSE "zero"

\* upload(perPassCB.data(), size, 1, 256), then CreateConstantBufferView at
\* advance(descs.first, descID).
UploadAndCreateView(st, payload) ==
    Bind(st, LAMBDA s :
        Emit(EmitCmd(s, [Call("upload", <<payload.size, 1, ConstantBufferAlignment>>, s.at)
                            EXCEPT !.data = payload.writes]),
             "CreateConstantBufferView", <<s.descs + s.descID, payload.size>>))

\* ---------------------------------------- per-pass resolver (renderFrame)
\* One constant of a per-pass constant buffer (lines 426-456).
WritePerPassConstant_WorldViewAllowed(payload, constant, i) ==
    IF constant.mSource = "EngineSource" THEN
        CASE constant.mDataType = "Proj" -> WriteMatrix(payload, "Proj", 0)
          [] constant.mDataType = "View" -> WriteMatrix(payload, "View", 0)
          [] constant.mDataType = "WorldView" -> WriteMatrix(payload, "WorldView", 0)
          [] constant.mDataType = "WorldInvT" -> Throw(payload, "WorldInvT cannot be per pass")
          [] OTHER -> Throw(payload, "engine source constant cannot be monostate")
    ELSE IF constant.mSource = "RenderTargetSource" THEN
        Throw(payload, "dynamic constant cannot be render target source")
    ELSE Throw(payload, "dynamic constant cannot be material source")

WritePerPassConstant(payload, constant, i) ==
    IF constant.mSource = "EngineSource" THEN
        CASE constant.mDataType = "Proj" -> WriteMatrix(payload, "Proj", 0)
          [] constant.mDataType = "View" -> WriteMatrix(payload, "View", 0)
          [] constant.mDataType = "WorldView" -> Throw(payload, "WorldView cannot be per pass")
          [] constant.mDataType = "WorldInvT" -> Throw(payload, "WorldInvT cannot be per pass")
          [] OTHER -> Throw(payload, "engine source constant cannot be monostate")
    ELSE IF constant.mSource = "RenderTargetSource" THEN
        Throw(payload, "dynamic constant cannot be render target source")
    ELSE Throw(payload, "dynamic constant cannot be material source")

\* The payload of a per-pass constant buffer (lines 420-457).
PerPassPayload(cb) ==
    ForEach(WritePerPassConstant,
            NewPayload(align_up(cb.mSize, ConstantBufferAlignment)), cb.mConstants)

\* The matching constant buffer is built, uploaded and given a view
\* (lines 420-466).
BuildPerPassCB(st, cb) ==
    OnOk(Expects(st, cb.mSize # 0), LAMBDA s :
        Bind(PerPassPayload(cb), LAMBDA payload :
            IF payload.err # "" THEN [s EXCEPT !.err = payload.err]
            ELSE UploadAndCreateView(s, payload)))

\* The loop over the subpass's constant buffers (lines 415-470): the first
\* one whose index is the collection's is built, then the loop breaks.
RECURSIVE FindPerPassCB(_, _, _, _)
FindPerPassCB(st, cbs, i, collection) ==
    OnOk(st, LAMBDA s :
        IF i > Len(cbs) THEN Throw(s, "constant buffer not found")
        ELSE IF cbs[i].mIndex # collection.mIndex
             THEN FindPerPassCB(s, cbs, i + 1, collection)
        ELSE BuildPerPassCB(s, cbs[i]))

\* One EngineSource descriptor (lines 413-476).
PerPassAttribute(st, dataType, collection, subpass) ==
    OnOk(IF dataType = "ConstantBuffer"
         THEN FindPerPassCB(st, subpass.mConstantBuffers, 1, collection)
         ELSE Throw(st, "not supported yet"),
         LAMBDA r : [r EXCEPT !.descID = @ + 1])

\* One subrange, by source (lines 410-491).
PerPassSubrange(st, subrange, collection, subpass) ==
    IF subrange.mSource = "EngineSource" THEN
        ForEach(LAMBDA s, dataType, k : PerPassAttribute(s, dataType, collection, subpass),
                st, subrange.mDescriptors)
    ELSE IF subrange.mSource = "RenderTargetSource" THEN
        Throw([st EXCEPT !.descID = @ + Len(subrange.mDescriptors)],
              "dynamic descriptor cannot be render target source")
    ELSE Throw([st EXCEPT !.descID = @ + Len(subrange.mDescriptors)],
               "not supported yet")

\* allocateCircular(capacity): the next capacity descriptors of the frame.
AllocateCircular(st, capacity) ==
    OnOk(st, LAMBDA s :
        [Emit(s, "allocateCircular", <<capacity, s.heapOffset>>)
            EXCEPT !.descs = s.heapOffset,
                   !.heapOffset = s.heapOffset + capacity,
                   !.descID = 0])

\* One resource-view list of a Dynamic per-pass collection (lines 403-495).
PerPassDynamicList(st, list, collection, subpass) ==
    LET s1 == Expects(st, collection.mIndex.mType = "Table")
        s2 == Expects(s1, list.mCapacity # 0)
        s3 == AllocateCircular(s2, list.mCapacity)
        s4 == ForEach(LAMBDA s, range, i :
                        ForEach(LAMBDA t, subrange, j :
                                   PerPassSubrange(t, subrange, collection, subpass),
                                s, range.mSubranges),
                      s3, list.mRanges)
    IN OnOk(s4, LAMBDA s :
               Emit(s, "SetGraphicsRootDescriptorTable", <<list.mSlot, s.descs>>))

\* One resource-view list of a Persistent per-pass collection (lines 396-400).
PerPassPersistentList(st, list, collection) ==
    LET s1 == Expects(st, collection.mIndex.mType = "Table")
        s2 == Expects(s1, list.mCapacity # 0)
    IN Emit(s2, "SetGraphicsRootDescriptorTable", <<list.mSlot, list.mGpuOffset>>)

\* One collection of subpass.mDescriptors (lines 387-503).
PerPassCollection(st, collection, subpass) ==
    IF collection.mIndex.mUpdate # PerPass THEN st
    ELSE IF collection.mIndex.mType = "SSV" THEN st
    ELSE LET r == IF collection.mIndex.mPersistency = "Persistent"
                  THEN ForEach(LAMBDA s, list, i : PerPassPersistentList(s, list, collection),
                               st, collection.mResourceViewLists)
                  ELSE ForEach(LAMBDA s, list, i :
                                  PerPassDynamicList(s, list, collection, subpass),
                               st, collection.mResourceViewLists)
         IN ForEach(LAMBDA s, list, i : Throw(s, "not supported yet"),
                    r, collection.mSamplerLists)

\* ------------------------------- per-draw resolver (buildDynamicDescriptors)
\* One constant of a per-draw constant buffer (lines 167-207); batch is
\* whether pBatch is not null.
WritePerDrawConstant(payload, constant, batch, objectID) ==
    IF constant.mSource = "EngineSource" THEN
        CASE constant.mDataType = "Proj" -> Throw(payload, "Proj cannot be per instance")
          [] constant.mDataType = "View" -> Throw(payload, "View cannot be per instance")
          [] constant.mDataType = "WorldView" ->
                IF ~ batch THEN Throw(payload, "batch is nullptr")
                ELSE WriteMatrix(payload, "WorldView", objectID)
          [] constant.mDataType = "WorldInvT" ->
                IF ~ batch THEN Throw(payload, "batch is nullptr")
                ELSE WriteMatrix(payload, "WorldInvT", objectID)
          [] OTHER -> Throw(payload, "engine source constant cannot be monostate")
    ELSE IF constant.mSource = "RenderTargetSource" THEN
        Throw(payload, "dynamic constant cannot be render target source")
    ELSE Throw(payload, "dynamic constant cannot be material source")

\* The payload of a per-draw constant buffer (lines 161-208).
PerDrawPayload(cb, batch, objectID) ==
    ForEach(LAMBDA p, constant, i : WritePerDrawConstant(p, constant, batch, objectID),
            NewPayload(align_up(cb.mSize, ConstantBufferAlignment)), cb.mConstants)

\* The matching constant buffer is built, uploaded and given a view
\* (lines 161-216).
BuildPerDrawCB(st, cb, batch, objectID) ==
    OnOk(Expects(st, cb.mSize # 0), LAMBDA s :
        Bind(PerDrawPayload(cb, batch, objectID), LAMBDA payload :
            IF payload.err # "" THEN [s EXCEPT !.err = payload.err]
            ELSE UploadAndCreateView(s, payload)))

\* The loop over the shader subpass's constant buffers (lines 156-221).
RECURSIVE FindPerDrawCB(_, _, _, _, _, _)
FindPerDrawCB(st, cbs, i, collection, batch, objectID) ==
    OnOk(st, LAMBDA s :
        IF i > Len(cbs) THEN Throw(s, "constant buffer not found")
        ELSE IF cbs[i].mIndex # collection.mIndex
             THEN FindPerDrawCB(s, cbs, i + 1, collection, batch, objectID)
        ELSE BuildPerDrawCB(s, cbs[i], batch, objectID))

\* One EngineSource descriptor (lines 153-236).
PerDrawAttribute(st, dataType, collection, shaderSubpass, batch, objectID) ==
    OnOk(CASE dataType = "ConstantBuffer" ->
                 FindPerDrawCB(st, shaderSubpass.mConstantBuffers, 1, collection,
                               batch, objectID)
           [] dataType = "MainTex" -> Throw(st, "not supported yet")
           [] dataType = "PointSampler" -> st
           [] dataType = "LinearSampler" -> st
           [] OTHER -> Throw(st, "engine source should not be std::monostate"),
         LAMBDA r : [r EXCEPT !.descID = @ + 1])

\* PerDrawSubrange that skips the descriptors of a foreign source.
PerDrawSubrange_SkipsForeign(st, subrange, collection, shaderSubpass, batch, objectID) ==
    IF subrange.mSource = "EngineSource" THEN
        ForEach(LAMBDA s, dataType, k :
                   PerDrawAttribute(s, dataType, collection, shaderSubpass, batch, objectID),
                st, subrange.mDescriptors)
    ELSE OnOk(st, LAMBDA s : [s EXCEPT !.descID = @ + Len(subrange.mDescriptors)])

\* One subrange, by source (lines 151-250).
PerDrawSubrange(st, subrange, collection, shaderSubpass, batch, objectID) ==
    IF subrange.mSource = "EngineSource" THEN
        ForEach(LAMBDA s, dataType, k :
                   PerDrawAttribute(s, dataType, collection, shaderSubpass, batch, objectID),
                st, subrange.mDescriptors)
    ELSE IF subrange.mSource = "RenderTargetSource" THEN
        Throw([st EXCEPT !.descID = @ + Len(subrange.mDescriptors)],
              "render target source's Update Frequency should not be less than PerPass")
    ELSE Throw([st EXCEPT !.descID = @ + Len(subrange.mDescriptors)],
               "not supported yet")

\* One resource-view list of a Dynamic per-draw collection (lines 144-254).
PerDrawDynamicList(st, list, collection, shaderSubpass, batch, objectID) ==
    LET s1 == Expects(st, list.mRanges # <<>>)
        s2 == Expects(s1, list.mCapacity # 0)
        s3 == AllocateCircular(s2, list.mCapacity)
        s4 == ForEach(LAMBDA s, range, i :
                        ForEach(LAMBDA t, subrange, j :
                                   PerDrawSubrange(t, subrange, collection, shaderSubpass,
                                                   batch, objectID),
                                s, range.mSubranges),
                      s3, list.mRanges)
    IN OnOk(s4, LAMBDA s :
               Emit(s, "SetGraphicsRootDescriptorTable", <<list.mSlot, s.descs>>))

\* PerDrawCollection that resolves a Dynamic collection of any update
\* frequency.
PerDrawCollection_AnyUpdate(st, collection, shaderSubpass, batch, objectID) ==
    IF collection.mIndex.mPersistency = "Persistent" THEN
        LET bind(s, list, i) ==
                Emit(s, "SetGraphicsRootDescriptorTable", <<list.mSlot, list.mGpuOffset>>)
        IN ForEach(bind,
                   ForEach(bind, Expects(st, collection.mIndex.mType = "Table"),
                           collection.mResourceViewLists),
                   collection.mSamplerLists)
    ELSE
        LET s0 == Expects(st, collection.mIndex.mType = "Table")
            s2 == ForEach(LAMBDA s, list, i :
                             PerDrawDynamicList(s, list, collection, shaderSubpass,
                                                batch, objectID),
                          s0, collection.mResourceViewLists)
        IN ForEach(LAMBDA s, list, i :
                      Throw(Expects(s, collection.mIndex.mType = "Table"),
                            "not supported yet"),
                   s2, collection.mSamplerLists)

\* One collection of subpassData.mCollections (lines 131-261).
PerDrawCollection(st, collection, shaderSubpass, batch, objectID) ==
    IF collection.mIndex.mPersistency = "Persistent" THEN
        LET bind(s, list, i) ==
                Emit(s, "SetGraphicsRootDescriptorTable", <<list.mSlot, list.mGpuOffset>>)
        IN ForEach(bind,
                   ForEach(bind, Expects(st, collection.mIndex.mType = "Table"),
                           collection.mResourceViewLists),
                   collection.mSamplerLists)
    ELSE
        LET s0 == Expects(st, collection.mIndex.mType = "Table")
            s1 == Expects(s0, collection.mIndex.mUpdate < PerPass)
            s2 == ForEach(LAMBDA s, list, i :
                             PerDrawDynamicList(s, list, collection, shaderSubpass,
                                                batch, objectID),
                          s1, collection.mResourceViewLists)
        IN ForEach(LAMBDA s, list, i :
                      Throw(Expects(s, collection.mIndex.mType = "Table"),
                            "not supported yet"),
                   s2, collection.mSamplerLists)

\* buildDynamicDescriptors (lines 124-262).
buildDynamicDescriptors(st, shaderSubpass, batch, objectID) ==
    ForEach(LAMBDA s, collection, i :
               PerDrawCollection(s, collection, shaderSubpass, batch, objectID),
            st, shaderSubpass.mCollections)

\* ------------------------------------------------------------ renderFrame
\* The traversal is at position pos.
At(st, pos) == OnOk(st, LAMBDA s : [s EXCEPT !.at = pos])

\* seq.at(id) of a 0-based id: std::out_of_range when id is not an index.
InRange(st, seq, id) ==
    OnOk(st, LAMBDA s :
        IF (id + 1) \in DOMAIN seq THEN s ELSE [s EXCEPT !.err = "out_of_range"])

\* Lines 538-542 and 609-613: the pipeline state of the vertex layout is set
\* when it differs from the previous one of the subpass.
SetPipelineState(st, shaderSubpass, key) ==
    OnOk(InRange(st, shaderSubpass.mVertexLayoutIndex, key), LAMBDA s1 :
        LET layoutID == shaderSubpass.mVertexLayoutIndex[key + 1] IN
        OnOk(InRange(s1, shaderSubpass.mStates, layoutID), LAMBDA s2 :
            LET pso == shaderSubpass.mStates[layoutID + 1] IN
            IF s2.prevPSO # pso
            THEN [Emit(s2, "SetPipelineState", <<pso>>) EXCEPT !.prevPSO = pso]
            ELSE s2))

\* Lines 514-517 and 587-591.
SetPrimitiveTopology(st, topology) ==
    OnOk(st, LAMBDA s :
        IF topology # s.prevTopology
        THEN [Emit(s, "IASetPrimitiveTopology", <<topology>>)
                 EXCEPT !.prevTopology = topology]
        ELSE s)

\* A full-screen-triangle draw call (lines 513-556).
RenderFullScreenTriangle(st, dc, pos) ==
    LET s1 == SetPrimitiveTopology(st, D3D_PRIMITIVE_TOPOLOGY_TRIANGLELIST)
        s2 == Emit(s1, "IASetVertexBuffers", <<0, 0>>)
        s3 == Emit(s2, "IASetIndexBuffer", <<0>>)
    IN ForEach(LAMBDA s, shaderSubpass, k :
                  LET t0 == At(s, pos \o <<0, 0, k>>)
                      t1 == SetPipelineState(t0, shaderSubpass, 0)
                      t2 == buildDynamicDescriptors(t1, shaderSubpass, FALSE, 0)
                  IN EmitCmd(t2, DrawInstanced),
               s3, dc.mMaterial.mSubpasses)

\* A DrawCall_ object of a content (lines 509-561).
RenderDrawCall(st, content, id, pos) ==
    OnOk(InRange(st, content.mDrawCalls, id), LAMBDA s :
        LET dc == content.mDrawCalls[id + 1] IN
        IF dc.mType = "FullScreenTriangle"
        THEN RenderFullScreenTriangle(s, dc, pos)
        ELSE Throw(s, "mesh drawcall not supported"))

\* RenderSubMesh that draws the first submesh for every material.
RenderSubMesh_FirstSubMesh(st, mesh, material, objectID, materialID, pos) ==
    LET submesh == mesh.mSubMeshes[1]
        s1 == SetPrimitiveTopology(st, mesh.mPrimitiveTopology)
        s2 == Emit(s1, "IASetVertexBuffers", <<0, 1>>)
        s3 == Emit(s2, "IASetIndexBuffer", <<IF mesh.mIndexed THEN 1 ELSE 0>>)
    IN ForEach(LAMBDA s, shaderSubpass, k :
                  LET t0 == At(s, pos \o <<objectID, materialID, k>>)
                      t1 == SetPipelineState(t0, shaderSubpass, mesh.mLayoutID)
                      t2 == buildDynamicDescriptors(t1, shaderSubpass, TRUE, objectID)
                  IN Emit(t2, "DrawIndexedInstanced",
                          <<submesh.mIndexCount, 1, submesh.mIndexOffset, 0, 0>>),
               s3, material.mSubpasses)

\* One material of a mesh renderer with its submesh (lines 576-627).
RenderSubMesh(st, mesh, material, objectID, materialID, pos) ==
    LET submesh == mesh.mSubMeshes[materialID]
        s1 == SetPrimitiveTopology(st, mesh.mPrimitiveTopology)
        s2 == Emit(s1, "IASetVertexBuffers", <<0, 1>>)
        s3 == Emit(s2, "IASetIndexBuffer", <<IF mesh.mIndexed THEN 1 ELSE 0>>)
    IN ForEach(LAMBDA s, shaderSubpass, k :
                  LET t0 == At(s, pos \o <<objectID, materialID, k>>)
                      t1 == SetPipelineState(t0, shaderSubpass, mesh.mLayoutID)
                      t2 == buildDynamicDescriptors(t1, shaderSubpass, TRUE, objectID)
                  IN Emit(t2, "DrawIndexedInstanced",
                          <<submesh.mIndexCount, 1, submesh.mIndexOffset, 0, 0>>),
               s3, material.mSubpasses)

\* The materials of one mesh renderer (lines 570-628): the loop breaks at the
\* first material that has no submesh.
RECURSIVE RenderMaterials(_, _, _, _, _)
RenderMaterials(st, renderer, objectID, materialID, pos) ==
    OnOk(st, LAMBDA s :
        IF materialID > Len(renderer.mMaterials) THEN s
        ELSE IF materialID - 1 >= Len(renderer.mMesh.mSubMeshes) THEN s
        ELSE RenderMaterials(
                RenderSubMesh(s, renderer.mMesh, renderer.mMaterials[materialID],
                              objectID, materialID, pos),
                renderer, objectID, materialID + 1, pos))

\* RenderObjectBatch that checks the length of the world transforms only.
RenderObjectBatch_TransformsOnly(st, content, id, pos) ==
    OnOk(InRange(st, content.mFlattenedObjects, id), LAMBDA s :
        LET batch == content.mFlattenedObjects[id + 1]
            s2 == Expects(s, batch.mWorldTransforms = Len(batch.mMeshRenderers))
        IN ForEach(LAMBDA t, renderer, objectID :
                      RenderMaterials(t, renderer, objectID, 1, pos),
                   s2, batch.mMeshRenderers))

\* An ObjectBatch_ object of a content (lines 562-630).
RenderObjectBatch(st, content, id, pos) ==
    OnOk(InRange(st, content.mFlattenedObjects, id), LAMBDA s :
        LET batch == content.mFlattenedObjects[id + 1]
            s2 == Expects(s, batch.mWorldTransforms = Len(batch.mMeshRenderers))
            s3 == Expects(s2, batch.mWorldTransformInvs = Len(batch.mMeshRenderers))
        IN ForEach(LAMBDA t, renderer, objectID :
                      RenderMaterials(t, renderer, objectID, 1, pos),
                   s3, batch.mMeshRenderers))

\* One object of content.mIDs (lines 507-632).
RenderObject(st, content, object, pos) ==
    IF object.mType = "DrawCall"
    THEN RenderDrawCall(st, content, object.mIndex, pos)
    ELSE RenderObjectBatch(st, content, object.mIndex, pos)

\* RenderQueueEntry that resolves the per-pass collections before it binds
\* the root signature.
RenderQueueEntry_DescriptorsFirst(st, subpass, queue, pos) ==
    LET s1 == ForEach(LAMBDA s, collection, i : PerPassCollection(s, collection, subpass),
                      At(st, pos), subpass.mDescriptors)
        s2 == EmitCmd(s1, SetGraphicsRootSignature)
    IN ForEach(LAMBDA s, content, c :
                  ForEach(LAMBDA t, object, i :
                             RenderObject(At(t, pos \o <<c, i>>), content, object,
                                          pos \o <<c, i>>),
                          s, content.mIDs),
               s2, queue.mContents)

\* One entry of subpass.mOrderedRenderQueue (lines 383-634): root signature,
\* per-pass descriptors, then the contents in order.
RenderQueueEntry(st, subpass, queue, pos) ==
    LET s1 == EmitCmd(At(st, pos), SetGraphicsRootSignature)
        s2 == ForEach(LAMBDA s, collection, i : PerPassCollection(s, collection, subpass),
                      s1, subpass.mDescriptors)
    IN ForEach(LAMBDA s, content, c :
                  ForEach(LAMBDA t, object, i :
                             RenderObject(At(t, pos \o <<c, i>>), content, object,
                                          pos \o <<c, i>>),
                          s, content.mIDs),
               s2, queue.mContents)

\* RenderTargetView without the alias of the second set of views.
RenderTargetView_NoAlternate(handle, ctx) ==
    IF handle = 0 THEN ctx.mBackBufferIndex ELSE handle

\* The render-target view of an output attachment (lines 324-330).
RenderTargetView(handle, ctx) ==
    IF handle = 0 THEN ctx.mBackBufferIndex
    ELSE IF handle = ctx.mBackBufferCount THEN ctx.mBackBufferIndex + ctx.mBackBufferCount
    ELSE handle

\* PreSubpassOutput that takes a depth-stencil clear of an output attachment
\* for a load operation that clears nothing.
PreSubpassOutput_IgnoresDepthClear(st, rt, ctx) ==
    CASE rt.mLoadOp = "ClearColor" ->
            Emit(st, "ClearRenderTargetView", <<RenderTargetView(rt.mHandle, ctx)>>)
      [] OTHER -> st

\* One output attachment (lines 322-343).
PreSubpassOutput(st, rt, ctx) ==
    CASE rt.mLoadOp = "ClearColor" ->
            Emit(st, "ClearRenderTargetView", <<RenderTargetView(rt.mHandle, ctx)>>)
      [] rt.mLoadOp = "ClearDepthStencil" ->
            Throw(st, "RTV should not use clear depth stencil")
      [] OTHER -> st

\* The depth-stencil attachment (lines 345-363).
PreSubpassDepth(st, ds) ==
    CASE ds.mLoadOp = "ClearColor" -> Throw(st, "DSV should not use clear color")
      [] ds.mLoadOp = "ClearDepthStencil" ->
            Emit(st, "ClearDepthStencilView",
                 <<ds.mHandle, (IF ds.mClearDepth THEN 1 ELSE 0)
                               + (IF ds.mClearStencil THEN 2 ELSE 0)>>)
      [] OTHER -> st

\* Pre-subpass (lines 321-370).
PreSubpass(st, subpass, ctx) ==
    LET s1 == ForEach(LAMBDA s, rt, i : PreSubpassOutput(s, rt, ctx),
                      st, subpass.mOutputAttachments)
        s2 == ForEach(LAMBDA s, ds, i : PreSubpassDepth(s, ds),
                      s1, subpass.mDepthStencilAttachment)
        rtvs == [i \in 1 .. Len(subpass.mOutputAttachments) |->
                    RenderTargetView(subpass.mOutputAttachments[i].mHandle, ctx)]
    IN IF rtvs # <<>> \/ subpass.mDepthStencilAttachment # <<>>
       THEN Emit(s2, "OMSetRenderTargets",
                 <<Len(rtvs), Len(subpass.mDepthStencilAttachment)>> \o rtvs)
       ELSE s2

\* RecordPostSubpass that records one barrier call per declared transition.
RecordPostSubpass_PerTransition(subpass, ctx) ==
    [i \in 1 .. Len(subpass.mPostViewTransitions) |->
        LET t == subpass.mPostViewTransitions[i] IN
        ResourceBarrier(<<Transition(IF t.mFramebuffer = 0 THEN ctx.mBackBufferIndex
                                                           ELSE t.mFramebuffer,
                                     t.mSource, t.mTarget)>>)]

\* Post-subpass: one batched barrier call for the declared transitions,
\* framebuffer handle 0 standing for the current back buffer.
RecordPostSubpass(subpass, ctx) ==
    IF subpass.mPostViewTransitions = <<>> THEN <<>>
    ELSE << ResourceBarrier(
              [i \in 1 .. Len(subpass.mPostViewTransitions) |->
                  LET t == subpass.mPostViewTransitions[i] IN
                  Transition(IF t.mFramebuffer = 0 THEN ctx.mBackBufferIndex
                                                   ELSE t.mFramebuffer,
                             t.mSource, t.mTarget)]) >>

\* RecordSubpass that keeps the state-change caches of the previous subpass.
RecordSubpass_KeepsState(st, subpass, ctx, pos) ==
    LET s1 == PreSubpass(At(st, pos), subpass, ctx)
        s3 == ForEach(LAMBDA s, queue, q : RenderQueueEntry(s, subpass, queue, pos \o <<q>>),
                      s1, subpass.mOrderedRenderQueue)
    IN ForEach(LAMBDA s, barrier, i : EmitCmd(s, barrier),
               At(s3, pos), RecordPostSubpass(subpass, ctx))

\* One graphics subpass (lines 317-656); the state-change caches start anew.
RecordSubpass(st, subpass, ctx, pos) ==
    LET s1 == PreSubpass(At(st, pos), subpass, ctx)
        s2 == OnOk(s1, LAMBDA s : [s EXCEPT !.prevTopology = D3D_PRIMITIVE_TOPOLOGY_UNDEFINED,
                                            !.prevPSO = 0])
        s3 == ForEach(LAMBDA s, queue, q : RenderQueueEntry(s, subpass, queue, pos \o <<q>>),
                      s2, subpass.mOrderedRenderQueue)
    IN ForEach(LAMBDA s, barrier, i : EmitCmd(s, barrier),
               At(s3, pos), RecordPostSubpass(subpass, ctx))

\* RecordSubpasses that visits the subpasses of a pass last to first.
RecordSubpasses_Reversed(st, subpasses, ctx, passID) ==
    ForEach(LAMBDA s, subpass, sp :
               RecordSubpass(s, subpasses[Len(subpasses) - sp + 1], ctx,
                             <<passID, Len(subpasses) - sp + 1>>),
            st, subpasses)

RecordSubpasses(st, subpasses, ctx, passID) ==
    ForEach(LAMBDA s, subpass, sp : RecordSubpass(s, subpass, ctx, <<passID, sp>>),
            st, subpasses)

\* RecordPass that binds any number of viewports and scissor rectangles.
RecordPass_AnyCount(st, pass, ctx, passID) ==
    LET s0 == At(st, <<passID>>)
        s1 == IF pass.mViewports # 0
              THEN Emit(s0, "RSSetViewports", <<pass.mViewports>>)
              ELSE s0
        s2 == IF pass.mScissorRects # 0
              THEN Emit(s1, "RSSetScissorRects", <<pass.mScissorRects>>)
              ELSE s1
    IN RecordSubpasses(s2, pass.mGraphicsSubpasses, ctx, passID)

\* One pass (lines 302-657): viewport and scissor, then its subpasses.
RecordPass(st, pass, ctx, passID) ==
    LET s0 == At(st, <<passID>>)
        s1 == IF pass.mViewports # 0
              THEN Emit(Expects(s0, pass.mViewports = 1), "RSSetViewports",
                        <<pass.mViewports>>)
              ELSE s0
        s2 == IF pass.mScissorRects # 0
              THEN Emit(Expects(s1, pass.mScissorRects = 1), "RSSetScissorRects",
                        <<pass.mScissorRects>>)
              ELSE s1
    IN RecordSubpasses(s2, pass.mGraphicsSubpasses, ctx, passID)

RecordPasses(st, passes, ctx) ==
    ForEach(LAMBDA s, pass, p : RecordPass(s, pass, ctx, p), st, passes)

\* renderFrame up to its Close (lines 266-657): the calls made and the error
\* raised, if any.
renderFrame(ctx) ==
    LET s1 == EmitCmd(NewRenderState,
                      ResourceBarrier(<<Transition(ctx.mBackBufferIndex,
                                                   RESOURCE_STATE_PRESENT,
                                                   RESOURCE_STATE_RENDER_TARGET)>>))
        s2 == EmitCmd(s1, SetDescriptorHeaps)
    IN RecordPasses(s2, ctx.mPipeline.mPasses, ctx)


\* ----------------------------------------------------------- initPipeline
\* InitBarriers that skips only the render targets declared RENDER_TARGET.
RECURSIVE InitBarriers_KeepsCommon(_, _)
InitBarriers_KeepsCommon(states, k) ==
    IF k > Len(states) THEN <<>>
    ELSE (IF states[k] = RESOURCE_STATE_RENDER_TARGET
          THEN <<>>
          ELSE << ResourceBarrier(<<Transition(k - 1, RESOURCE_STATE_RENDER_TARGET,
                                               states[k])>>) >>)
         \o InitBarriers_KeepsCommon(states, k + 1)

\* InitBarriers with the two states of the transition exchanged.
RECURSIVE InitBarriers_Exchanged(_, _)
InitBarriers_Exchanged(states, k) ==
    IF k > Len(states) THEN <<>>
    ELSE (IF states[k] = RESOURCE_STATE_COMMON \/ states[k] = RESOURCE_STATE_RENDER_TARGET
          THEN <<>>
          ELSE << ResourceBarrier(<<Transition(k - 1, states[k],
                                               RESOURCE_STATE_RENDER_TARGET)>>) >>)
         \o InitBarriers_Exchanged(states, k + 1)

\* One barrier call per render target whose declared initial state is
\* neither COMMON nor RENDER_TARGET.
RECURSIVE InitBarriers(_, _)
InitBarriers(states, k) ==
    IF k > Len(states) THEN <<>>
    ELSE (IF states[k] = RESOURCE_STATE_COMMON \/ states[k] = RESOURCE_STATE_RENDER_TARGET
          THEN <<>>
          ELSE << ResourceBarrier(<<Transition(k - 1, RESOURCE_STATE_RENDER_TARGET,
                                               states[k])>>) >>)
         \o InitBarriers(states, k + 1)

\* ------------------------------------------------------------------- Init
\* The frame queue after its constructor.
\* ------------------------------- the subpass loop of buildShaders and of
\* buildShaderData (part_000 lines 60-141 and 191-319)
PassNames == {"", "Opaque", "Shadow", "Depth"}

PrototypeNames == {"Diffuse", "Sky", "Water"}

\* std::to_string(k) + "/" + (passName.empty() ? "@" : passName) + "/" +
\* the prototype's name (lines 67-73, 198-204).
ShaderName(k, passName, prototypeName) ==
    ToString(k) \o "/" \o (IF passName = "" THEN "@" ELSE passName)
                \o "/" \o prototypeName

\* The names of group.mPrograms for a pass of n subpasses: one program per
\* subpass, named by the subpass's 0-based position.
GroupPrograms(passName, prototypeName, n) ==
    {ShaderName(i, passName, prototypeName) : i \in 0 .. (n - 1)}

\* A pass of n subpasses (a subpass is named by its 0-based position) of a
\* prototype, with the programs of its shader group.
ShaderPass(passName, prototypeName, n) ==
    [passName |-> passName, prototypeName |-> prototypeName,
     pass |-> [i \in 1 .. n |-> i - 1],
     mPrograms |-> GroupPrograms(passName, prototypeName, n)]

ShaderPasses ==
    {ShaderPass(passName, prototypeName, n) :
        passName \in PassNames, prototypeName \in PrototypeNames,
        n \in 0 .. MaxShaderSubpasses}

\* Neither function is at a pass.
NoPass == [passName |-> "", prototypeName |-> "", pass |-> <<>>, mPrograms |-> {}]

\* passData before the loop (lines 64-65): k is the loop's counter, names
\* the program names looked up so far.
NewPassData == [fn |-> "", k |-> 0, names |-> <<>>, mSubpasses |-> <<>>, err |-> ""]

\* The body of the loop for one subpass: the name is built from k++ (line
\* 67), group.mPrograms.at(name) throws std::out_of_range for a name the
\* group does not hold (line 76), a subpass data entry is appended (line 79)
\* and filled from the subpass and the program, and k is incremented again
\* at the end of the body (line 139).
SubpassBody(data, p, subpass) ==
    IF ShaderName(data.k, p.passName, p.prototypeName) \notin p.mPrograms
    THEN [data EXCEPT !.k = @ + 1,
                      !.names = Append(@, ShaderName(data.k, p.passName, p.prototypeName)),
                      !.err = "out_of_range"]
    ELSE [data EXCEPT !.k = @ + 2,
                      !.names = Append(@, ShaderName(data.k, p.passName, p.prototypeName)),
                      !.mSubpasses =
                          Append(@, [subpass |-> subpass,
                                     program |-> ShaderName(data.k, p.passName,
                                                            p.prototypeName)])]

\* for (const auto& subpass : pass), left at the first exception.
RECURSIVE SubpassLoop(_, _, _)
SubpassLoop(data, p, i) ==
    IF i > Len(p.pass) \/ data.err # "" THEN data
    ELSE SubpassLoop(SubpassBody(data, p, p.pass[i]), p, i + 1)

QueueInit ==
    /\ mFrameQueueSize \in 1 .. MaxRing
    /\ mFence0 \in 0 .. MaxFence0
    /\ mNextFrameFence = mFence0
    /\ mNextFrameIndex = 0
    /\ mFrames = [s \in 0 .. (mFrameQueueSize - 1) |-> NewFrameContext]
    /\ mFence = mNextFrameFence
    /\ mDirectQueue = <<>>
    /\ mDescriptors = NewDescriptorHeap(CircularReserve, mFrameQueueSize)
    /\ mUploadBuffer = NewAllocator(mFrameQueueSize)
    /\ pc = "idle"
    /\ op = "none"
    /\ FrameFence = 0
    /\ FrameIndex = 0
    /\ swapChain = NoSwapChain
    /\ beginLog = <<>>
    /\ queueLog = <<>>
    /\ held = [s \in 0 .. (mFrameQueueSize - 1) |-> "none"]
    /\ renderLog = <<>>
    /\ renderError = ""

Init ==
    /\ QueueInit
    /\ rsgTables = <<>>
    /\ shaderData = <<>>
    /\ shaderPass = NoPass
    /\ passData = <<>>

\* ------------------------------------------------------------- beginFrame
\* beginFrameEnter with the fence counter read after its increment.
beginFrameEnter_FenceAfterIncrement(sc, o) ==
    /\ pc = "idle"
    /\ mNextFrameFence - mFence0 < MaxFrames
    /\ FrameFence' = mNextFrameFence + 1
    /\ mNextFrameFence' = mNextFrameFence + 1
    /\ FrameIndex' = mNextFrameIndex
    /\ mNextFrameIndex' = (mNextFrameIndex + 1) % mFrameQueueSize
    /\ swapChain' = sc
    /\ op' = o
    /\ pc' = "waiting"
    /\ UNCHANGED <<held, renderLog, renderError, mFrameQueueSize, mFence0, mFrames, mFence, mDirectQueue,
                   mDescriptors, mUploadBuffer, beginLog, queueLog>>
    /\ UNCHANGED shaderVars

\* beginFrameEnter that derives the ring index from the fence counter.
beginFrameEnter_IndexFromFence(sc, o) ==
    /\ pc = "idle"
    /\ mNextFrameFence - mFence0 < MaxFrames
    /\ FrameFence' = mNextFrameFence
    /\ mNextFrameFence' = mNextFrameFence + 1
    /\ FrameIndex' = mNextFrameIndex
    /\ mNextFrameIndex' = (mNextFrameFence + 1) % mFrameQueueSize
    /\ swapChain' = sc
    /\ op' = o
    /\ pc' = "waiting"
    /\ UNCHANGED <<held, renderLog, renderError, mFrameQueueSize, mFence0, mFrames, mFence, mDirectQueue,
                   mDescriptors, mUploadBuffer, beginLog, queueLog>>
    /\ UNCHANGED shaderVars

\* Lines 78-89: take the fence counter and the ring index, then reach the wait.
beginFrameEnter(sc, o) ==
    /\ pc = "idle"
    /\ mNextFrameFence - mFence0 < MaxFrames
    /\ FrameFence' = mNextFrameFence
    /\ mNextFrameFence' = mNextFrameFence + 1
    /\ FrameIndex' = mNextFrameIndex
    /\ mNextFrameIndex' = (mNextFrameIndex + 1) % mFrameQueueSize
    /\ swapChain' = sc
    /\ op' = o
    /\ pc' = "waiting"
    /\ UNCHANGED <<held, renderLog, renderError, mFrameQueueSize, mFence0, mFrames, mFence, mDirectQueue,
                   mDescriptors, mUploadBuffer, beginLog, queueLog>>
    /\ UNCHANGED shaderVars

\* The caller calls beginFrame(sc).
BeginFrame == \E sc \in SwapChains : beginFrameEnter(sc, "frame")

\* The caller calls initPipeline(sc), which starts with beginFrame(sc).
InitPipeline == \E sc \in SwapChains : beginFrameEnter(sc, "init")

\* The frame context beginFrame leaves in the slot (lines 91-117).
BegunFrameContext(frame, fence, sc) ==
    [frame EXCEPT !.mFrameFenceId = fence,
                  !.mBackBufferIndex = sc.mBackBufferIndex,
                  !.mBackBufferCount = NumBackBuffers,
                  !.mCommandListState = "recording",
                  !.mCommandList = <<>>,
                  !.mPipeline = sc.mPipeline]

\* BeginFrameReturn waiting for one less than the slot's fence value.
BeginFrameReturn_WaitOffByOne ==
    /\ pc = "waiting"
    /\ waitForFence(mFence, mFrames[FrameIndex].mFrameFenceId - 1)
    /\ mFrames' = [mFrames EXCEPT
                     ![FrameIndex] = BegunFrameContext(@, FrameFence, swapChain)]
    /\ mDescriptors' = advanceFrame(mDescriptors)
    /\ mUploadBuffer' = advanceFrame(mUploadBuffer)
    /\ beginLog' = Append(beginLog,
                          [slot |-> FrameIndex,
                           fence |-> mFrames'[FrameIndex].mFrameFenceId])
    /\ pc' = "begun"
    /\ UNCHANGED <<held, renderLog, renderError, mFrameQueueSize, mFence0, mNextFrameFence, mNextFrameIndex,
                   mFence, mDirectQueue, op, FrameFence, FrameIndex, swapChain,
                   queueLog>>
    /\ UNCHANGED shaderVars

\* BeginFrameReturn that forgets to advance the upload buffer.
BeginFrameReturn_NoUploadAdvance ==
    /\ pc = "waiting"
    /\ waitForFence(mFence, mFrames[FrameIndex].mFrameFenceId)
    /\ mFrames' = [mFrames EXCEPT
                     ![FrameIndex] = BegunFrameContext(@, FrameFence, swapChain)]
    /\ mDescriptors' = advanceFrame(mDescriptors)
    /\ mUploadBuffer' = mUploadBuffer
    /\ beginLog' = Append(beginLog,
                          [slot |-> FrameIndex,
                           fence |-> mFrames'[FrameIndex].mFrameFenceId])
    /\ pc' = "begun"
    /\ UNCHANGED <<held, renderLog, renderError, mFrameQueueSize, mFence0, mNextFrameFence, mNextFrameIndex,
                   mFence, mDirectQueue, op, FrameFence, FrameIndex, swapChain,
                   queueLog>>
    /\ UNCHANGED shaderVars

\* BeginFrameReturn that stamps every frame context of the ring.
BeginFrameReturn_StampsAllSlots ==
    /\ pc = "waiting"
    /\ waitForFence(mFence, mFrames[FrameIndex].mFrameFenceId)
    /\ mFrames' = [s \in DOMAIN mFrames |->
                      BegunFrameContext(mFrames[s], FrameFence, swapChain)]
    /\ mDescriptors' = advanceFrame(mDescriptors)
    /\ mUploadBuffer' = advanceFrame(mUploadBuffer)
    /\ beginLog' = Append(beginLog,
                          [slot |-> FrameIndex,
                           fence |-> mFrames'[FrameIndex].mFrameFenceId])
    /\ pc' = "begun"
    /\ UNCHANGED <<held, renderLog, renderError, mFrameQueueSize, mFence0, mNextFrameFence, mNextFrameIndex,
                   mFence, mDirectQueue, op, FrameFence, FrameIndex, swapChain,
                   queueLog>>
    /\ UNCHANGED shaderVars

\* Lines 90-119: the wait on the slot's previous fence value is over; take
\* the slot, reset its recording state, advance both allocators, return.
BeginFrameReturn ==
    /\ pc = "waiting"
    /\ waitForFence(mFence, mFrames[FrameIndex].mFrameFenceId)
    /\ mFrames' = [mFrames EXCEPT
                     ![FrameIndex] = BegunFrameContext(@, FrameFence, swapChain)]
    /\ mDescriptors' = advanceFrame(mDescriptors)
    /\ mUploadBuffer' = advanceFrame(mUploadBuffer)
    /\ beginLog' = Append(beginLog,
                          [slot |-> FrameIndex,
                           fence |-> mFrames'[FrameIndex].mFrameFenceId])
    /\ pc' = "begun"
    /\ UNCHANGED <<held, renderLog, renderError, mFrameQueueSize, mFence0, mNextFrameFence, mNextFrameIndex,
                   mFence, mDirectQueue, op, FrameFence, FrameIndex, swapChain,
                   queueLog>>
    /\ UNCHANGED shaderVars

\* ------------------------------------------------- recording and submission
\* The traversal of every input, computed once; renderFrame reads the back
\* buffer and the pipeline of its context.
AllSwapChains == SwapChains \cup GraphSwapChains \cup {NoSwapChain}

RenderResult ==
    [sc \in AllSwapChains |-> renderFrame(BegunFrameContext(NewFrameContext, 0, sc))]

RenderResultOf(ctx) ==
    RenderResult[[mBackBufferIndex |-> ctx.mBackBufferIndex, mPipeline |-> ctx.mPipeline]]

\* Everything renderFrame records before it closes the list.
RenderCommands(ctx) == SelectSeq(RenderResultOf(ctx).log, IsCommand)

\* CloseAndExecute that executes the list before its last command is recorded
\* and leaves it open.
CloseAndExecute_ExecuteEarly(slot, cmds) ==
    LET item == ExecItem(slot, mFrames[slot].mFrameFenceId,
                         mDescriptors.current, mUploadBuffer.current,
                         SubSeq(cmds, 1, Len(cmds) - 1)) IN
    /\ mFrames' = [mFrames EXCEPT ![slot].mCommandList = cmds,
                                  ![slot].mCommandListState = "recording"]
    /\ mDirectQueue' = ExecuteCommandLists(mDirectQueue, item)
    /\ queueLog' = Append(queueLog, item)

\* Close the slot's command list holding cmds and execute it on the queue.
CloseAndExecute(slot, cmds) ==
    LET item == ExecItem(slot, mFrames[slot].mFrameFenceId,
                         mDescriptors.current, mUploadBuffer.current, cmds) IN
    /\ mFrames' = [mFrames EXCEPT ![slot].mCommandList = cmds,
                                  ![slot].mCommandListState = "closed"]
    /\ mDirectQueue' = ExecuteCommandLists(mDirectQueue, item)
    /\ queueLog' = Append(queueLog, item)

\* RenderFrame that records and closes but does not submit.
RenderFrame_NoSubmit ==
    /\ pc = "begun"
    /\ op = "frame"
    /\ mFrames' = [mFrames EXCEPT
                     ![FrameIndex].mCommandList = RenderCommands(mFrames[FrameIndex]),
                     ![FrameIndex].mCommandListState = "closed"]
    /\ pc' = "submitted"
    /\ UNCHANGED <<held, renderLog, renderError, mFrameQueueSize, mFence0, mNextFrameFence, mNextFrameIndex,
                   mFence, mDirectQueue, mDescriptors, mUploadBuffer, op,
                   FrameFence, FrameIndex, swapChain, beginLog, queueLog>>
    /\ UNCHANGED shaderVars

\* RenderFrame that closes and submits what was recorded when the traversal
\* raised an error.
RenderFrame_SubmitsPartial ==
    /\ pc = "begun"
    /\ op = "frame"
    /\ \E r \in {RenderResultOf(mFrames[FrameIndex])} :
       /\ renderLog' = r.log
       /\ renderError' = r.err
       /\ CloseAndExecute(FrameIndex, SelectSeq(r.log, IsCommand))
       /\ pc' = IF r.err = "" THEN "submitted" ELSE "failed"
    /\ UNCHANGED <<held, mFrameQueueSize, mFence0, mNextFrameFence, mNextFrameIndex,
                   mFence, mDescriptors, mUploadBuffer, op, FrameFence,
                   FrameIndex, swapChain, beginLog>>
    /\ UNCHANGED shaderVars

\* renderFrame(pContext, mr), pContext being the context beginFrame returned.
\* An error raised during the traversal leaves the list recording and
\* nothing is executed.
RenderFrame ==
    /\ pc = "begun"
    /\ op = "frame"
    /\ \E r \in {RenderResultOf(mFrames[FrameIndex])} :
       /\ renderLog' = r.log
       /\ renderError' = r.err
       /\ IF r.err = ""
          THEN /\ CloseAndExecute(FrameIndex, SelectSeq(r.log, IsCommand))
               /\ pc' = "submitted"
          ELSE /\ mFrames' = [mFrames EXCEPT
                                ![FrameIndex].mCommandList = SelectSeq(r.log, IsCommand)]
               /\ pc' = "failed"
               /\ UNCHANGED <<mDirectQueue, queueLog>>
    /\ UNCHANGED <<held, mFrameQueueSize, mFence0, mNextFrameFence, mNextFrameIndex,
                   mFence, mDescriptors, mUploadBuffer, op, FrameFence,
                   FrameIndex, swapChain, beginLog>>
    /\ UNCHANGED shaderVars

\* InitPipelineSubmit that executes the command list twice.
InitPipelineSubmit_SubmitsTwice ==
    /\ pc = "begun"
    /\ op = "init"
    /\ \E item \in {ExecItem(FrameIndex, mFrames[FrameIndex].mFrameFenceId,
                             mDescriptors.current, mUploadBuffer.current,
                             InitBarriers(swapChain.mPipeline.mRTVInitialStates, 1))} :
          /\ mFrames' = [mFrames EXCEPT ![FrameIndex].mCommandList = item.cmds,
                                        ![FrameIndex].mCommandListState = "closed"]
          /\ mDirectQueue' = mDirectQueue \o <<item, item>>
          /\ queueLog' = queueLog \o <<item, item>>
    /\ pc' = "submitted"
    /\ UNCHANGED <<held, renderLog, renderError, mFrameQueueSize, mFence0, mNextFrameFence, mNextFrameIndex,
                   mFence, mDescriptors, mUploadBuffer, op, FrameFence,
                   FrameIndex, swapChain, beginLog>>
    /\ UNCHANGED shaderVars

\* initPipeline lines 53-72: record the initial-state barriers, close, execute.
InitPipelineSubmit ==
    /\ pc = "begun"
    /\ op = "init"
    /\ CloseAndExecute(FrameIndex,
                       InitBarriers(swapChain.mPipeline.mRTVInitialStates, 1))
    /\ pc' = "submitted"
    /\ UNCHANGED <<held, renderLog, renderError, mFrameQueueSize, mFence0, mNextFrameFence, mNextFrameIndex,
                   mFence, mDescriptors, mUploadBuffer, op, FrameFence,
                   FrameIndex, swapChain, beginLog>>
    /\ UNCHANGED shaderVars

\* EndFrame that signals the fence counter instead of the frame's value.
EndFrame_SignalsCounter ==
    /\ pc = "submitted"
    /\ mDirectQueue' = Signal(mDirectQueue, mNextFrameFence)
    /\ queueLog' = Append(queueLog, SignalItem(mNextFrameFence))
    /\ pc' = "idle"
    /\ op' = "none"
    /\ UNCHANGED <<held, renderLog, renderError, mFrameQueueSize, mFence0, mNextFrameFence, mNextFrameIndex,
                   mFrames, mFence, mDescriptors, mUploadBuffer, FrameFence,
                   FrameIndex, swapChain, beginLog>>
    /\ UNCHANGED shaderVars

\* EndFrame that waits for the GPU to reach the frame before it signals.
EndFrame_WaitsForFence ==
    /\ pc = "submitted"
    /\ waitForFence(mFence, mFrames[FrameIndex].mFrameFenceId - 1)
    /\ mDirectQueue' = Signal(mDirectQueue, mFrames[FrameIndex].mFrameFenceId)
    /\ queueLog' = Append(queueLog, SignalItem(mFrames[FrameIndex].mFrameFenceId))
    /\ pc' = "idle"
    /\ op' = "none"
    /\ UNCHANGED <<held, renderLog, renderError, mFrameQueueSize, mFence0, mNextFrameFence, mNextFrameIndex,
                   mFrames, mFence, mDescriptors, mUploadBuffer, FrameFence,
                   FrameIndex, swapChain, beginLog>>
    /\ UNCHANGED shaderVars

\* endFrame(pFrame): enqueue the fence signal of the frame (lines 666-667).
EndFrame ==
    /\ pc = "submitted"
    /\ mDirectQueue' = Signal(mDirectQueue, mFrames[FrameIndex].mFrameFenceId)
    /\ queueLog' = Append(queueLog, SignalItem(mFrames[FrameIndex].mFrameFenceId))
    /\ pc' = "idle"
    /\ op' = "none"
    /\ UNCHANGED <<held, renderLog, renderError, mFrameQueueSize, mFence0, mNextFrameFence, mNextFrameIndex,
                   mFrames, mFence, mDescriptors, mUploadBuffer, FrameFence,
                   FrameIndex, swapChain, beginLog>>
    /\ UNCHANGED shaderVars

\* -------------------------------------------------------------------- GPU
\* The GPU retires the head of the queue: a command list finishes executing.
GpuExecute ==
    /\ mDirectQueue # <<>>
    /\ Head(mDirectQueue).type = "exec"
    /\ mDirectQueue' = Tail(mDirectQueue)
    /\ UNCHANGED <<held, renderLog, renderError, mFrameQueueSize, mFence0, mNextFrameFence, mNextFrameIndex,
                   mFrames, mFence, mDescriptors, mUploadBuffer, pc, op,
                   FrameFence, FrameIndex, swapChain, beginLog, queueLog>>
    /\ UNCHANGED shaderVars

\* The GPU reaches a Signal: the fence takes the signalled value.
GpuSignal ==
    /\ mDirectQueue # <<>>
    /\ Head(mDirectQueue).type = "signal"
    /\ mFence' = Head(mDirectQueue).value
    /\ mDirectQueue' = Tail(mDirectQueue)
    /\ UNCHANGED <<held, renderLog, renderError, mFrameQueueSize, mFence0, mNextFrameFence, mNextFrameIndex,
                   mFrames, mDescriptors, mUploadBuffer, pc, op,
                   FrameFence, FrameIndex, swapChain, beginLog, queueLog>>
    /\ UNCHANGED shaderVars

\* --------------------------------------------------------- the free caller
\* A caller that holds several contexts at once and renders and ends them in
\* any order; held[slot] is what it has done with the context of the slot.
FreeBeginFrame ==
    /\ held[mNextFrameIndex] = "none"
    /\ \E sc \in SwapChains :
          /\ sc.mBackBufferIndex = 0
          /\ beginFrameEnter(sc, "frame")

\* beginFrame returns the context to the caller (lines 90-119).
FreeBeginFrameReturn ==
    /\ pc = "waiting"
    /\ waitForFence(mFence, mFrames[FrameIndex].mFrameFenceId)
    /\ mFrames' = [mFrames EXCEPT
                     ![FrameIndex] = BegunFrameContext(@, FrameFence, swapChain)]
    /\ mDescriptors' = advanceFrame(mDescriptors)
    /\ mUploadBuffer' = advanceFrame(mUploadBuffer)
    /\ beginLog' = Append(beginLog,
                          [slot |-> FrameIndex,
                           fence |-> mFrames'[FrameIndex].mFrameFenceId])
    /\ held' = [held EXCEPT ![FrameIndex] = "begun"]
    /\ pc' = "idle"
    /\ op' = "none"
    /\ UNCHANGED <<renderLog, renderError, mFrameQueueSize, mFence0, mNextFrameFence,
                   mNextFrameIndex, mFence, mDirectQueue, FrameFence, FrameIndex,
                   swapChain, queueLog>>
    /\ UNCHANGED shaderVars

\* renderFrame(pContext, mr) of a context the caller holds.
FreeRenderFrame(slot) ==
    /\ held[slot] = "begun"
    /\ CloseAndExecute(slot, RenderCommands(mFrames[slot]))
    /\ held' = [held EXCEPT ![slot] = "submitted"]
    /\ UNCHANGED <<renderLog, renderError, mFrameQueueSize, mFence0, mNextFrameFence,
                   mNextFrameIndex, mFence, mDescriptors, mUploadBuffer, pc, op,
                   FrameFence, FrameIndex, swapChain, beginLog>>
    /\ UNCHANGED shaderVars

\* endFrame(pFrame) of a context the caller holds (lines 666-667).
FreeEndFrame(slot) ==
    /\ held[slot] = "submitted"
    /\ mDirectQueue' = Signal(mDirectQueue, mFrames[slot].mFrameFenceId)
    /\ queueLog' = Append(queueLog, SignalItem(mFrames[slot].mFrameFenceId))
    /\ held' = [held EXCEPT ![slot] = "none"]
    /\ UNCHANGED <<renderLog, renderError, mFrameQueueSize, mFence0, mNextFrameFence,
                   mNextFrameIndex, mFrames, mFence, mDescriptors, mUploadBuffer, pc,
                   op, FrameFence, FrameIndex, swapChain, beginLog>>
    /\ UNCHANGED shaderVars

\* ------------------------------------------------- one frame of a render graph
\* A queue of one frame context that renders one frame, or initialises one
\* pipeline, of a render-graph input.
GraphInit ==
    /\ Init
    /\ mFrameQueueSize = 1
    /\ mFence0 = 0

GraphBeginFrame ==
    /\ mNextFrameFence = mFence0
    /\ \E sc \in GraphSwapChains :
          /\ sc.mPipeline \notin RTVPipelines
          /\ beginFrameEnter(sc, "frame")

GraphInitPipeline ==
    /\ mNextFrameFence = mFence0
    /\ \E sc \in GraphSwapChains :
          /\ sc.mPipeline \in RTVPipelines
          /\ beginFrameEnter(sc, "init")

\* ---------------------------------------------------------- specification
\* ------------------------------------------- the descriptor heap on its own
\* The circular descriptor heap under any sequence of its two operations.
HeapInit == Init

HeapAllocate(capacity) ==
    /\ mDescriptors.err = ""
    /\ mDescriptors' = allocateCircular(mDescriptors, capacity)
    /\ UNCHANGED <<mFrameQueueSize, mFence0, mNextFrameFence, mNextFrameIndex, mFrames,
                   mFence, mDirectQueue, mUploadBuffer, pc, op, FrameFence,
                   FrameIndex, swapChain, beginLog, queueLog, held, renderLog,
                   renderError>>
    /\ UNCHANGED shaderVars

HeapAdvanceFrame ==
    /\ mDescriptors.err = ""
    /\ mDescriptors.advances < MaxFrames
    /\ mDescriptors' = advanceFrame(mDescriptors)
    /\ UNCHANGED <<mFrameQueueSize, mFence0, mNextFrameFence, mNextFrameIndex, mFrames,
                   mFence, mDirectQueue, mUploadBuffer, pc, op, FrameFence,
                   FrameIndex, swapChain, beginLog, queueLog, held, renderLog,
                   renderError>>
    /\ UNCHANGED shaderVars

\* The capacities requested: up to one descriptor beyond the reserve.
Capacities == 1 .. (CircularReserve + 1)

\* ------------------------------------------------------ shader asset builder
\* The root-parameter types of a root-signature entry.
RootTypes == {"Constants", "CBV", "UAV", "SRV", "Table", "SSV"}

\* The types that put one parameter in the root signature outside a table.
RootOnlyTypes == {"Constants", "CBV", "UAV", "SRV"}

\* A descriptor of a table: its type and its name.
Descriptor(type, name) == [mType |-> type, mName |-> name]

\* An entry of rsg.mTables: the index (update frequency and type) and the
\* descriptors of the table.
RootEntry(update, type, descriptors) ==
    [mUpdate |-> update, mType |-> type, mDescriptors |-> descriptors]

\* The entries explored: every update frequency and type, with one texture
\* and one constant-buffer descriptor.
RootEntries ==
    {RootEntry(update, type, <<Descriptor("SRV", "MainTex"), Descriptor("CBV", "")>>) :
        update \in UpdateEnum, type \in RootTypes}

RootSignatures == Seqs(RootEntries, MaxTables)

\* passData.mSubpasses.emplace_back(): the textures collected so far and the
\* error raised, "" while none.
NewShaderData == [mTextures |-> <<>>, err |-> ""]

\* One descriptor of a table (part_000 lines 237-242).
BuildDescriptor(data, d) ==
    IF d.mType = "SRV"
    THEN OnOk(Expects(data, d.mName # ""),
              LAMBDA s : [s EXCEPT !.mTextures = Append(@, d.mName)])
    ELSE data

\* One entry of rsg.mTables (part_000 lines 219-248).
BuildTable(data, table) ==
    IF table.mUpdate # PerBatch THEN data
    ELSE CASE table.mType = "Constants" -> Throw(data, "root constants not supported yet")
           [] table.mType = "CBV" -> Throw(data, "root cbv not supported yet")
           [] table.mType = "UAV" -> Throw(data, "root uav not supported yet")
           [] table.mType = "SRV" -> Throw(data, "root srv not supported yet")
           [] table.mType = "Table" ->
                 ForEach(LAMBDA s, d, i : BuildDescriptor(s, d), data, table.mDescriptors)
           [] OTHER -> data

\* The loop over rsg.mTables of buildShaders for one shader subpass.
buildShaderData(tables) ==
    ForEach(LAMBDA s, table, i : BuildTable(s, table), NewShaderData, tables)

\* The builder is at a shader subpass with some root signature.
ShaderInit ==
    /\ QueueInit
    /\ mFrameQueueSize = 1
    /\ mFence0 = 0
    /\ rsgTables \in RootSignatures
    /\ shaderData = <<>>
    /\ shaderPass = NoPass
    /\ passData = <<>>

BuildShaderData ==
    /\ shaderData = <<>>
    /\ shaderData' = <<buildShaderData(rsgTables)>>
    /\ UNCHANGED <<mFrameQueueSize, mFence0, mNextFrameFence, mNextFrameIndex, mFrames,
                   mFence, mDirectQueue, mDescriptors, mUploadBuffer, pc, op,
                   FrameFence, FrameIndex, swapChain, beginLog, queueLog, held,
                   renderLog, renderError, rsgTables, shaderPass, passData>>
\* ------------------------------------------------ initPipeline on its own
\* The swap chains initPipeline is called with: a pipeline that declares no
\* render target and one that declares three, the second in RENDER_TARGET.
InitSwapChains ==
    {[mBackBufferIndex |-> 0, mPipeline |-> RTVPipeline(<<>>)],
     [mBackBufferIndex |-> 0,
      mPipeline |-> RTVPipeline(<<RESOURCE_STATE_PRESENT, RESOURCE_STATE_RENDER_TARGET,
                                  RESOURCE_STATE_PIXEL_SHADER_RESOURCE>>)]}

\* The caller calls initPipeline(sc) (line 51).
InitPipelineEnter == \E sc \in InitSwapChains : beginFrameEnter(sc, "init")

\* ------------------------------------------------- beginFrame that fails
\* The fence wait of line 90 fails: beginFrame is left with the counters
\* advanced and nothing else done.
BeginFrameWaitFails ==
    /\ pc = "waiting"
    /\ pc' = "wait failed"
    /\ UNCHANGED <<mFrameQueueSize, mFence0, mNextFrameFence, mNextFrameIndex, mFrames,
                   mFence, mDirectQueue, mDescriptors, mUploadBuffer, op,
                   FrameFence, FrameIndex, swapChain, beginLog, queueLog, held,
                   renderLog, renderError>>
    /\ UNCHANGED shaderVars

\* BeginFrameResetFails with the reset after the allocators are advanced.
BeginFrameResetFails_AfterAdvance ==
    /\ pc = "waiting"
    /\ waitForFence(mFence, mFrames[FrameIndex].mFrameFenceId)
    /\ mFrames' = [mFrames EXCEPT ![FrameIndex].mFrameFenceId = FrameFence,
                                  ![FrameIndex].mBackBufferIndex = swapChain.mBackBufferIndex,
                                  ![FrameIndex].mBackBufferCount = NumBackBuffers]
    /\ mDescriptors' = advanceFrame(mDescriptors)
    /\ mUploadBuffer' = advanceFrame(mUploadBuffer)
    /\ pc' = "reset failed"
    /\ UNCHANGED <<mFrameQueueSize, mFence0, mNextFrameFence, mNextFrameIndex,
                   mFence, mDirectQueue, op,
                   FrameFence, FrameIndex, swapChain, beginLog, queueLog, held,
                   renderLog, renderError>>
    /\ UNCHANGED shaderVars

\* The wait is over and the slot has its fence value and back buffer (lines
\* 91-103), then the reset of the command allocator or of the command list
\* fails (106-107): beginFrame is left before the allocators are advanced.
BeginFrameResetFails ==
    /\ pc = "waiting"
    /\ waitForFence(mFence, mFrames[FrameIndex].mFrameFenceId)
    /\ mFrames' = [mFrames EXCEPT ![FrameIndex].mFrameFenceId = FrameFence,
                                  ![FrameIndex].mBackBufferIndex = swapChain.mBackBufferIndex,
                                  ![FrameIndex].mBackBufferCount = NumBackBuffers]
    /\ pc' = "reset failed"
    /\ UNCHANGED <<mFrameQueueSize, mFence0, mNextFrameFence, mNextFrameIndex,
                   mFence, mDirectQueue, mDescriptors, mUploadBuffer, op,
                   FrameFence, FrameIndex, swapChain, beginLog, queueLog, held,
                   renderLog, renderError>>
    /\ UNCHANGED shaderVars


Next ==
    \/ BeginFrame
    \/ InitPipeline
    \/ BeginFrameReturn
    \/ RenderFrame
    \/ InitPipelineSubmit
    \/ EndFrame
    \/ GpuExecute
    \/ GpuSignal

Spec == Init /\ [][Next]_vars

FreeNext ==
    \/ FreeBeginFrame
    \/ FreeBeginFrameReturn
    \/ \E slot \in Slots : FreeRenderFrame(slot)
    \/ \E slot \in Slots : FreeEndFrame(slot)
    \/ GpuExecute
    \/ GpuSignal

SpecFree == Init /\ [][FreeNext]_vars

\* The free caller with a GPU that retires whatever is enqueued and a
\* beginFrame that returns once its wait is satisfied for good.
SpecFreeLive ==
    /\ SpecFree
    /\ WF_vars(GpuExecute)
    /\ WF_vars(GpuSignal)
    /\ WF_vars(FreeBeginFrameReturn)

GraphNext ==
    \/ GraphBeginFrame
    \/ GraphInitPipeline
    \/ BeginFrameReturn
    \/ RenderFrame
    \/ InitPipelineSubmit
    \/ EndFrame
    \/ GpuExecute
    \/ GpuSignal

SpecGraph == GraphInit /\ [][GraphNext]_vars

\* A caller that only initialises pipelines.
InitNext ==
    \/ InitPipelineEnter
    \/ BeginFrameReturn
    \/ InitPipelineSubmit
    \/ EndFrame
    \/ GpuExecute
    \/ GpuSignal

SpecInit == Init /\ [][InitNext]_vars

\* Frames of a caller whose beginFrame may fail; a failure is final.
FailNext ==
    \/ BeginFrame
    \/ BeginFrameReturn
    \/ BeginFrameWaitFails
    \/ BeginFrameResetFails
    \/ RenderFrame
    \/ EndFrame
    \/ GpuExecute
    \/ GpuSignal

SpecFail == Init /\ [][FailNext]_vars

\* ------------------------------------------------ the subpass loop alone
PassInit ==
    /\ QueueInit
    /\ mFrameQueueSize = 1
    /\ mFence0 = 0
    /\ rsgTables = <<>>
    /\ shaderData = <<>>
    /\ shaderPass \in ShaderPasses
    /\ passData = <<>>

\* ShaderAssetBuilder::buildShaders comes to the pass (lines 60-141).
BuildShaders ==
    /\ passData = <<>>
    /\ passData' = <<[SubpassLoop(NewPassData, shaderPass, 1) EXCEPT !.fn = "buildShaders"]>>
    /\ UNCHANGED <<mFrameQueueSize, mFence0, mNextFrameFence, mNextFrameIndex, mFrames,
                   mFence, mDirectQueue, mDescriptors, mUploadBuffer, pc, op,
                   FrameFence, FrameIndex, swapChain, beginLog, queueLog, held,
                   renderLog, renderError, rsgTables, shaderData, shaderPass>>

\* buildShaderData comes to the pass (lines 191-319).
BuildPassData ==
    /\ passData = <<>>
    /\ passData' = <<[SubpassLoop(NewPassData, shaderPass, 1) EXCEPT !.fn = "buildShaderData"]>>
    /\ UNCHANGED <<mFrameQueueSize, mFence0, mNextFrameFence, mNextFrameIndex, mFrames,
                   mFence, mDirectQueue, mDescriptors, mUploadBuffer, pc, op,
                   FrameFence, FrameIndex, swapChain, beginLog, queueLog, held,
                   renderLog, renderError, rsgTables, shaderData, shaderPass>>

PassNext ==
    \/ BuildShaders
    \/ BuildPassData

SpecPass == PassInit /\ [][PassNext]_vars

HeapNext ==
    \/ \E capacity \in Capacities : HeapAllocate(capacity)
    \/ HeapAdvanceFrame

SpecHeap == HeapInit /\ [][HeapNext]_vars

ShaderNext == BuildShaderData

SpecShader == ShaderInit /\ [][ShaderNext]_vars

\* ------------------------------------------------------------- properties
Last(seq) == seq[Len(seq)]

ExecItems(queue) == {i \in 1 .. Len(queue) : queue[i].type = "exec"}

\* C1: the k-th beginFrame call (k = 0, 1, ...; a call made inside
\* initPipeline counts) uses ring slot k mod R and assigns that slot the
\* fence value F0 + k.
C1_SlotAndFencePerCall ==
    \A k \in 1 .. Len(beginLog) :
        /\ beginLog[k].slot = (k - 1) % mFrameQueueSize
        /\ beginLog[k].fence = mFence0 + (k - 1)

\* C1 witness: a ring of two slots has wrapped around, one of the calls
\* having come from initPipeline.
C1_Witness ==
    /\ mFrameQueueSize = 2
    /\ Len(beginLog) = 3
    /\ op = "init"
    /\ pc = "begun"

\* C2: while beginFrame is at its wait for slot S, it neither returns nor
\* touches the slot's recording state, the slot's fence value or the
\* allocators unless the completed fence value has reached the fence value
\* previously assigned to S.
C2_NoProgressBeforeFence ==
    [][ (pc = "waiting" /\ (pc' # "waiting" \/ mFrames' # mFrames
                              \/ mDescriptors' # mDescriptors
                              \/ mUploadBuffer' # mUploadBuffer))
        => mFence >= mFrames[FrameIndex].mFrameFenceId ]_vars

\* C2 witness: beginFrame is blocked, the previous occupant of its slot has
\* a fence value the fence has not reached.
C2_Witness ==
    /\ pc = "waiting"
    /\ mFence < mFrames[FrameIndex].mFrameFenceId

\* C3: whenever beginFrame has returned the context of slot S, the GPU has
\* finished every command list previously submitted from slot S.
C3_SlotRetiredOnReturn ==
    pc = "begun" =>
        \A i \in ExecItems(mDirectQueue) : mDirectQueue[i].slot # FrameIndex

\* C4: when beginFrame has returned for the frame with fence value F, the GPU
\* has completed every frame with fence value <= F - R, so at most R - 1
\* earlier frames are unfinished.
C4_CpuAheadBound ==
    pc = "begun" =>
        /\ \A i \in ExecItems(mDirectQueue) :
              mDirectQueue[i].value > mFrames[FrameIndex].mFrameFenceId - mFrameQueueSize
        /\ Cardinality(ExecItems(mDirectQueue)) <= mFrameQueueSize - 1

\* C5: endFrame enqueues exactly one fence signal, whose value is the fence
\* value beginFrame assigned to the context, and changes neither the fence
\* counter, the ring index nor any frame context.
C5_EndFrameSignalsAssigned ==
    [][ (pc = "submitted" /\ pc' = "idle") =>
          /\ beginLog # <<>>
          /\ Last(beginLog).slot = FrameIndex
          /\ mDirectQueue' = Append(mDirectQueue, SignalItem(Last(beginLog).fence))
          /\ queueLog' = Append(queueLog, SignalItem(Last(beginLog).fence))
          /\ UNCHANGED <<mNextFrameFence, mNextFrameIndex, mFrames>> ]_vars

\* C5 witness: endFrame has just enqueued the signal of a frame.
C5_Witness ==
    /\ pc = "idle"
    /\ Len(queueLog) >= 4
    /\ Last(queueLog).type = "signal"
    /\ Last(queueLog).value = mFence0 + 1

\* C6 as stated: no command list is executed on the queue between the start
\* and the return of renderFrame.
C6_RenderDoesNotSubmit ==
    [][ (pc = "begun" /\ op = "frame" /\ pc' = "submitted")
        => queueLog' = queueLog ]_vars

\* C6 amended: between its start and its return renderFrame executes exactly
\* one command list on the queue, the one of its context, and enqueues no
\* fence signal.
C6_RenderSubmitsOwnList ==
    [][ (pc = "begun" /\ op = "frame" /\ pc' = "submitted") =>
          /\ Len(queueLog') = Len(queueLog) + 1
          /\ SubSeq(queueLog', 1, Len(queueLog)) = queueLog
          /\ Last(queueLog').type = "exec"
          /\ Last(queueLog').slot = FrameIndex
          /\ mDirectQueue' = Append(mDirectQueue, Last(queueLog')) ]_vars

\* C6 witness: renderFrame has returned and its command list is on the queue.
C6_Witness ==
    /\ pc = "submitted"
    /\ op = "frame"
    /\ mDirectQueue # <<>>
    /\ Last(mDirectQueue).type = "exec"
    /\ Last(mDirectQueue).slot = FrameIndex

\* C7: a returned renderFrame has closed the command list and submitted it
\* exactly once, with everything it recorded, and every fence signal on the
\* queue directly follows the command list of the frame it signals.
C7_CloseSubmitThenSignal ==
    /\ (pc = "submitted" /\ op = "frame") =>
          /\ mFrames[FrameIndex].mCommandListState = "closed"
          /\ Last(queueLog).type = "exec"
          /\ Last(queueLog).cmds = mFrames[FrameIndex].mCommandList
          /\ Last(queueLog).cmds = RenderCommands(mFrames[FrameIndex])
          /\ Cardinality({i \in ExecItems(queueLog) :
                 queueLog[i].value = mFrames[FrameIndex].mFrameFenceId}) = 1
    /\ \A j \in 1 .. Len(queueLog) :
          queueLog[j].type = "signal" =>
              /\ j > 1
              /\ queueLog[j - 1].type = "exec"
              /\ queueLog[j - 1].value = queueLog[j].value

\* C7 witness: a frame with draws was rendered and ended; its signal is
\* queued behind its command list.
C7_Witness ==
    /\ Len(mDirectQueue) >= 2
    /\ Last(mDirectQueue).type = "signal"
    /\ mDirectQueue[Len(mDirectQueue) - 1].type = "exec"
    /\ Len(mDirectQueue[Len(mDirectQueue) - 1].cmds) > 2

\* C8: renderFrame, endFrame and the barrier-recording part of initPipeline
\* can always proceed, whatever the GPU's progress; only beginFrame waits.
C8_OnlyBeginFrameBlocks ==
    /\ (pc = "begun" /\ op = "frame") => ENABLED RenderFrame
    /\ (pc = "begun" /\ op = "init") => ENABLED InitPipelineSubmit
    /\ pc = "submitted" => ENABLED EndFrame

\* C8 witness: renderFrame has returned although the GPU has retired nothing
\* of two frames and the fence is behind the frame's fence value.
C8_Witness ==
    /\ pc = "submitted"
    /\ Len(mDirectQueue) = Len(queueLog)
    /\ Len(mDirectQueue) >= 3
    /\ mFence < mFrames[FrameIndex].mFrameFenceId

\* C9: the number of generation advances of each allocator equals the number
\* of returned beginFrame calls.
C9_OneAdvancePerBeginFrame ==
    /\ mDescriptors.advances = Len(beginLog)
    /\ mUploadBuffer.advances = Len(beginLog)

\* C9 witness: two frames were rendered after two beginFrame calls.
C9_Witness ==
    /\ Len(beginLog) = 2
    /\ pc = "submitted"
    /\ mDescriptors.advances = 2
    /\ mUploadBuffer.advances = 2

\* C10: the allocators have as many generations as the ring has slots, and
\* the generation that is active (reclaimed by the last beginFrame) holds no
\* descriptors or uploads of an earlier frame the GPU has not finished.
C10_ReclaimOnlyRetired ==
    /\ mDescriptors.generations = mFrameQueueSize
    /\ mUploadBuffer.generations = mFrameQueueSize
    /\ \A i \in ExecItems(mDirectQueue) :
          mDirectQueue[i].value # Last(beginLog).fence =>
              /\ mDirectQueue[i].descGen # mDescriptors.current
              /\ mDirectQueue[i].uploadGen # mUploadBuffer.current

\* C11: over any sequence of beginFrame, renderFrame and endFrame calls,
\* several contexts held at once and ended in any order included, the
\* completed value of the fence never decreases.
C11_FenceMonotonic == [][mFence' >= mFence]_vars

\* What initPipeline recorded, once it has submitted its list.
InitSubmitted == pc = "submitted" /\ op = "init"

InitStates == swapChain.mPipeline.mRTVInitialStates

InitCommands == mFrames[FrameIndex].mCommandList

\* The render targets whose declared initial state is neither COMMON nor
\* RENDER_TARGET.
Declared ==
    {k \in DOMAIN InitStates :
        InitStates[k] \notin {RESOURCE_STATE_COMMON, RESOURCE_STATE_RENDER_TARGET}}

\* C12: initPipeline records a transition for render target k exactly when
\* the declared initial state of k is neither COMMON nor RENDER_TARGET, one
\* transition for each such entry and nothing else.
C12_TransitionIffDeclared ==
    InitSubmitted =>
        /\ Len(InitCommands) = Cardinality(Declared)
        /\ \A i \in DOMAIN InitCommands :
              /\ InitCommands[i].name = "ResourceBarrier"
              /\ Len(InitCommands[i].barriers) = 1
        /\ \A k \in DOMAIN InitStates :
              k \in Declared <=>
                 \E i \in DOMAIN InitCommands : InitCommands[i].barriers[1].res = k - 1
        /\ Last(queueLog).cmds = InitCommands

C12_Witness ==
    /\ InitSubmitted
    /\ Len(InitStates) = MaxRTV
    /\ Cardinality(Declared) = 2
    /\ \E k \in DOMAIN InitStates : InitStates[k] = RESOURCE_STATE_COMMON

\* C13 as stated: every barrier of initPipeline goes from the declared
\* initial state of its render target to RENDER_TARGET.
C13_BarrierIntoRenderTarget ==
    InitSubmitted =>
        \A i \in DOMAIN InitCommands :
            \A j \in DOMAIN InitCommands[i].barriers :
                LET t == InitCommands[i].barriers[j] IN
                /\ t.before = InitStates[t.res + 1]
                /\ t.after = RESOURCE_STATE_RENDER_TARGET

\* C13 amended: every barrier of initPipeline goes from RENDER_TARGET to the
\* declared initial state of its render target.
C13_BarrierOutOfRenderTarget ==
    InitSubmitted =>
        \A i \in DOMAIN InitCommands :
            \A j \in DOMAIN InitCommands[i].barriers :
                LET t == InitCommands[i].barriers[j] IN
                /\ t.before = RESOURCE_STATE_RENDER_TARGET
                /\ t.after = InitStates[t.res + 1]

C13_Witness ==
    /\ InitSubmitted
    /\ \E i \in DOMAIN InitCommands :
          /\ InitCommands[i].barriers[1].before = RESOURCE_STATE_RENDER_TARGET
          /\ InitCommands[i].barriers[1].after = RESOURCE_STATE_PRESENT
          /\ InitCommands[i].barriers[1].res = MaxRTV - 1

\* renderFrame has returned, or has raised an error.
Rendered == op = "frame" /\ pc \in {"submitted", "failed"}

RenderedOK == op = "frame" /\ pc = "submitted"

RenderedPipeline == mFrames[FrameIndex].mPipeline

IsDraw(call) == call.name \in DrawCommands

\* The draw commands renderFrame issued, in order.
Draws == SelectSeq(renderLog, IsDraw)

Min(a, b) == IF a < b THEN a ELSE b

\* The draws an object of a content declares: one per shader subpass of a
\* draw call's material; for a batch, one per renderer, per material that
\* has a submesh, per shader subpass.
ObjectDraws(content, object) ==
    IF object.mType = "DrawCall"
    THEN {<<0, 0, k>> :
            k \in DOMAIN content.mDrawCalls[object.mIndex + 1].mMaterial.mSubpasses}
    ELSE LET renderers == content.mFlattenedObjects[object.mIndex + 1].mMeshRenderers IN
         UNION {UNION {{<<o, m, k>> : k \in DOMAIN renderers[o].mMaterials[m].mSubpasses} :
                       m \in 1 .. Min(Len(renderers[o].mMaterials),
                                      Len(renderers[o].mMesh.mSubMeshes))} :
                o \in DOMAIN renderers}

\* The positions (pass, subpass, queue entry, content, item, object,
\* material, shader subpass) of the draws a pipeline declares.
DrawPositions(pipeline) ==
    UNION {UNION {UNION {UNION {UNION {
        {<<p, s, q, c, i>> \o d :
            d \in ObjectDraws(
                    pipeline.mPasses[p].mGraphicsSubpasses[s].mOrderedRenderQueue[q].mContents[c],
                    pipeline.mPasses[p].mGraphicsSubpasses[s].mOrderedRenderQueue[q].mContents[c].mIDs[i])} :
        i \in DOMAIN pipeline.mPasses[p].mGraphicsSubpasses[s].mOrderedRenderQueue[q].mContents[c].mIDs} :
        c \in DOMAIN pipeline.mPasses[p].mGraphicsSubpasses[s].mOrderedRenderQueue[q].mContents} :
        q \in DOMAIN pipeline.mPasses[p].mGraphicsSubpasses[s].mOrderedRenderQueue} :
        s \in DOMAIN pipeline.mPasses[p].mGraphicsSubpasses} :
        p \in DOMAIN pipeline.mPasses}

\* Lexicographic order of two positions of the same length.
LexLess(a, b) ==
    \E k \in DOMAIN a : a[k] < b[k] /\ \A j \in 1 .. (k - 1) : a[j] = b[j]

\* C14: a frame that renders without error issues exactly the draws its
\* pipeline declares, each once, in the order pass, subpass, render-queue
\* entry, content, draw item; the executed list holds the same draws; a grid
\* of np passes, ns subpasses, nq queue entries, nc contents and ni
\* single-draw items issues np * ns * nq * nc * ni draws.
C14_DrawsInGraphOrder ==
    RenderedOK =>
        /\ {Draws[i].at : i \in DOMAIN Draws} = DrawPositions(RenderedPipeline)
        /\ \A i, j \in DOMAIN Draws : i < j => LexLess(Draws[i].at, Draws[j].at)
        /\ SelectSeq(Last(queueLog).cmds, IsDraw) = Draws
        /\ \A np \in 0 .. MaxPasses, ns \in 0 .. MaxSubpasses, nq \in 1 .. 2,
              nc \in 1 .. 2, ni \in 0 .. MaxItems :
              RenderedPipeline = GridPipeline(np, ns, nq, nc, ni)
                 => Len(Draws) = np * ns * nq * nc * ni

C14_Witness ==
    /\ RenderedOK
    /\ RenderedPipeline = GridPipeline(2, 2, 1, 1, 3)
    /\ Len(Draws) = 12
    /\ Draws[1].at = <<1, 1, 1, 1, 1, 0, 0, 1>>
    /\ Draws[4].at = <<1, 2, 1, 1, 1, 0, 0, 1>>
    /\ Draws[12].at = <<2, 2, 1, 1, 3, 0, 0, 1>>

\* C15: for a batch of n renderers with m materials of one shader subpass
\* and s submeshes each, renderFrame issues min(m, s) indexed draws per
\* renderer and no other draw, the i-th with the index count and the index
\* offset of submesh i.
C15_OneDrawPerPairedSubMesh ==
    RenderedOK =>
        \A n \in 1 .. 2, m \in 0 .. MaxMaterials, s \in 0 .. MaxSubMeshes :
            RenderedPipeline = BatchPipeline(n, m, s) =>
                /\ Len(Draws) = n * Min(m, s)
                /\ \A o \in 1 .. n, i \in 1 .. Min(m, s) :
                      LET draw == Draws[(o - 1) * Min(m, s) + i]
                          submesh == GridMesh(s).mSubMeshes[i]
                      IN /\ draw.name = "DrawIndexedInstanced"
                         /\ draw.args = <<submesh.mIndexCount, 1, submesh.mIndexOffset, 0, 0>>

C15_Witness ==
    /\ RenderedOK
    /\ RenderedPipeline = BatchPipeline(1, MaxMaterials, 2)
    /\ Len(Draws) = 2
    /\ Draws[2].args = <<6, 1, 200, 0, 0>>

IsUpload(call) == call.name = "upload"

IsView(call) == call.name = "CreateConstantBufferView"

\* The constant-buffer uploads and the constant-buffer views of the frame.
Uploads == SelectSeq(renderLog, IsUpload)

Views == SelectSeq(renderLog, IsView)

\* C16: a constant buffer of declared size n > 0 is uploaded with the
\* length n rounded up to a multiple of 256, its fields at consecutive
\* 64-byte offsets from 0 in declared order and zero elsewhere, and viewed
\* with that length; when the fields do not fit the rounded size the frame
\* fails and nothing is uploaded or viewed.
C16_PayloadLayout ==
    Rendered =>
        \A scope \in WritingScopes, n \in CBSizes \ {0} :
          \A fields \in Seqs(ScopeFields(scope), MaxFields) :
            RenderedPipeline = CBPipeline(scope, n, fields) =>
                IF SizeofMatrix4f * Len(fields) <= ((n + 255) \div 256) * 256
                THEN /\ renderError = ""
                     /\ Len(Uploads) = 1
                     /\ Len(Views) = 1
                     /\ LET size == Uploads[1].args[1]
                            payload == [writes |-> Uploads[1].data]
                        IN /\ size % 256 = 0
                           /\ size >= n
                           /\ size - n < 256
                           /\ Views[1].args[2] = size
                           /\ Len(Uploads[1].data) = Len(fields)
                           /\ \A i \in DOMAIN fields :
                                 /\ Uploads[1].data[i].offset = 64 * (i - 1)
                                 /\ Uploads[1].data[i].size = 64
                           /\ \A b \in 0 .. (size - 1) :
                                 PayloadByte(payload, b) =
                                    IF b < 64 * Len(fields) THEN fields[(b \div 64) + 1]
                                                            ELSE "zero"
                ELSE /\ renderError = "Expects"
                     /\ Uploads = <<>>
                     /\ Views = <<>>

C16_Witness ==
    /\ RenderedOK
    /\ RenderedPipeline = CBPipeline("PerPass", 64, <<"View">>)
    /\ Uploads[1].args[1] = 256
    /\ Uploads[1].data = <<[offset |-> 0, size |-> 64, elem |-> "View", object |-> 0]>>

\* The fields the resolver of a scope may write.
LegalField(scope, field) ==
    CASE scope = "PerPass" -> field \in {"Proj", "View"}
      [] scope = "Batch" -> field \in {"WorldView", "WorldInvT"}
      [] OTHER -> FALSE

\* The error a field raises in a scope where it may not be written.
FieldError(scope, field) ==
    CASE scope = "PerPass" /\ field = "WorldView" -> "WorldView cannot be per pass"
      [] scope = "PerPass" /\ field = "WorldInvT" -> "WorldInvT cannot be per pass"
      [] scope # "PerPass" /\ field = "Proj" -> "Proj cannot be per instance"
      [] scope # "PerPass" /\ field = "View" -> "View cannot be per instance"
      [] OTHER -> "batch is nullptr"

\* C17: Proj and View are written by the per-pass resolver and fatal in the
\* per-draw resolver; WorldView and WorldInvT are fatal in the per-pass
\* resolver, written by the per-draw resolver for an object of a batch and
\* fatal for a full-screen triangle; when a field is fatal the constant
\* buffer is neither uploaded nor viewed.
C17_LegalScopeOfFields ==
    Rendered =>
        \A scope \in Scopes, fields \in Seqs(MatrixFields, MaxMixedFields) :
            RenderedPipeline = CBPipeline(scope, 256, fields) =>
                IF \A i \in DOMAIN fields : LegalField(scope, fields[i])
                THEN /\ renderError = ""
                     /\ Len(Views) = 1
                     /\ Len(Uploads) = 1
                     /\ [i \in DOMAIN Uploads[1].data |-> Uploads[1].data[i].elem] = fields
                ELSE /\ renderError =
                          FieldError(scope,
                              fields[CHOOSE i \in DOMAIN fields :
                                        /\ ~ LegalField(scope, fields[i])
                                        /\ \A j \in 1 .. (i - 1) : LegalField(scope, fields[j])])
                     /\ Uploads = <<>>
                     /\ Views = <<>>
                     /\ Draws = <<>>

C17_Witness ==
    /\ Rendered
    /\ RenderedPipeline = CBPipeline("FullScreen", 256, <<"WorldView">>)
    /\ renderError = "batch is nullptr"
    /\ Uploads = <<>>

\* The number of TRUE entries of a sequence of flags.
Count(flags) == Cardinality({i \in DOMAIN flags : flags[i]})

\* C18: a constant-buffer descriptor of a Dynamic collection resolves when
\* exactly one constant buffer of the subpass has the collection's index;
\* no match is fatal, and so are two or more.
C18_ExactlyOneMatch ==
    Rendered =>
        \A scope \in Scopes, flags \in Seqs(BOOLEAN, MaxBuffers) :
            RenderedPipeline = MatchPipeline(scope, flags) =>
                /\ Count(flags) = 1 => renderError = ""
                /\ Count(flags) = 0 => renderError = "constant buffer not found"
                /\ Count(flags) >= 2 => renderError # ""

\* C19: an engine point or linear sampler descriptor of a Dynamic
\* collection is skipped by both resolvers: the frame renders, nothing is
\* uploaded or viewed for it and its table is bound.
C19_SamplerIsNoOp ==
    Rendered =>
        \A scope \in Scopes, sampler \in Samplers :
            RenderedPipeline = SamplerPipeline(scope, sampler) =>
                /\ renderError = ""
                /\ Uploads = <<>>
                /\ Views = <<>>
                /\ Len(Draws) = 1

IsTable(call) == call.name = "SetGraphicsRootDescriptorTable"

IsAllocation(call) == call.name = "allocateCircular"

\* The errors raised for a subrange of a foreign source.
SourceError(scope, source) ==
    CASE source = "MaterialSource" -> "not supported yet"
      [] scope = "PerPass" -> "dynamic descriptor cannot be render target source"
      [] OTHER -> "render target source's Update Frequency should not be less than PerPass"

\* C20: a Dynamic collection with a subrange of a render-target or material
\* source is fatal in both resolvers; the range of its list is allocated
\* but the table of the list is never bound and no draw follows.
C20_ForeignSourceIsFatal ==
    Rendered =>
        \A scope \in Scopes, source \in ForeignSources, before \in 0 .. 1 :
            RenderedPipeline = SourcePipeline(scope, source, before) =>
                /\ renderError = SourceError(scope, source)
                /\ Len(SelectSeq(renderLog, IsAllocation)) = 1
                /\ Len(Views) = before
                /\ SelectSeq(renderLog, IsTable) = <<>>
                /\ Draws = <<>>
                /\ pc = "failed"

C20_Witness ==
    /\ Rendered
    /\ RenderedPipeline = SourcePipeline("Batch", "RenderTargetSource", 1)
    /\ renderError = SourceError("Batch", "RenderTargetSource")
    /\ Len(Views) = 1
    /\ SelectSeq(renderLog, IsTable) = <<>>

\* The descriptor tables bound and the descriptor ranges allocated by the
\* frame, in order.
Tables == SelectSeq(renderLog, IsTable)

Allocations == SelectSeq(renderLog, IsAllocation)

\* C21: resolving a Persistent collection, in any scope, binds each of its
\* resource-view lists and then each of its sampler lists at the list's slot
\* with the list's stored GPU offset, allocates nothing, uploads nothing and
\* raises no error.
C21_PersistentOnlyBinds ==
    Rendered =>
        \A scope \in Scopes :
            \A nviews \in 0 .. 2 :
                \A nsamplers \in 0 .. 2 :
                    RenderedPipeline = PersistentPipeline(scope, nviews, nsamplers) =>
                        /\ renderError = ""
                        /\ Allocations = <<>>
                        /\ Uploads = <<>>
                        /\ [i \in 1 .. Len(Tables) |-> Tables[i].args]
                             = [i \in 1 .. nviews + nsamplers |->
                                   IF i <= nviews THEN <<i, 10 * i>>
                                   ELSE <<i, 100 * (i - nviews)>>]

\* C22: the per-draw resolver resolves a Dynamic collection only if its
\* update frequency is below PerPass; for any other frequency the contract
\* fails before a range is allocated, a payload uploaded, a table bound or
\* the draw recorded.
C22_DynamicBelowPerPass ==
    Rendered =>
        \A scope \in DrawScopes :
            \A update \in UpdateEnum :
                \A d \in 1 .. MaxItems :
                    RenderedPipeline = UpdatePipeline(scope, update, d) =>
                        IF update < PerPass
                        THEN /\ renderError = ""
                             /\ Len(Tables) = d
                        ELSE /\ renderError = "Expects"
                             /\ Allocations = <<>>
                             /\ Uploads = <<>>
                             /\ Views = <<>>
                             /\ Tables = <<>>
                             /\ Draws = <<>>

C22_Witness ==
    /\ Rendered
    /\ RenderedPipeline = UpdatePipeline("Batch", PerBatch, 2)
    /\ renderError = "Expects"
    /\ Allocations = <<>>

\* C23: every draw whose material declares a Dynamic collection of PerDraw
\* or PerBatch update frequency resolves it: d draws allocate d ranges of the
\* list's capacity, no two of them overlapping, and bind d tables.
C23_PerDrawRebuiltEveryDraw ==
    Rendered =>
        \A scope \in DrawScopes :
            \A update \in {PerBatch, PerDraw} :
                \A d \in 1 .. MaxItems :
                    RenderedPipeline = UpdatePipeline(scope, update, d) =>
                        /\ renderError = ""
                        /\ Len(Draws) = d
                        /\ Len(Allocations) = d
                        /\ \A i \in 1 .. Len(Allocations) : Allocations[i].args[1] = 4
                        /\ \A i \in 1 .. Len(Allocations) :
                              \A j \in 1 .. Len(Allocations) :
                                 i < j => Allocations[i].args[2] + 4 <= Allocations[j].args[2]

\* The calls made while recording pass k, and those of them with the name.
PassCalls(k) == SelectSeq(renderLog, LAMBDA call : Len(call.at) >= 1 /\ call.at[1] = k)

Named(calls, names) == SelectSeq(calls, LAMBDA call : call.name \in names)

ClearCommands == {"ClearRenderTargetView", "ClearDepthStencilView"}

\* C24: a pass with more than one viewport or more than one scissor
\* rectangle ends renderFrame with a fatal error before any clear or draw of
\* the pass is recorded; otherwise the pass binds no viewport (scissor) when
\* it has none and its one viewport (scissor) when it has one.
C24_OneViewportOneScissor ==
    Rendered =>
        \A v \in 0 .. MaxViewports :
            \A s \in 0 .. MaxViewports :
                \A first \in BOOLEAN :
                    RenderedPipeline = ViewportPipeline(v, s, first) =>
                        LET k == IF first THEN 1 ELSE 2 IN
                        IF v > 1 \/ s > 1
                        THEN /\ renderError # ""
                             /\ Named(PassCalls(k), ClearCommands \cup DrawCommands) = <<>>
                             /\ Len(Draws) = k - 1
                        ELSE /\ renderError = ""
                             /\ Len(Named(PassCalls(k), {"RSSetViewports"})) = v
                             /\ Len(Named(PassCalls(k), {"RSSetScissorRects"})) = s
                             /\ \A i \in 1 .. Len(PassCalls(k)) :
                                   PassCalls(k)[i].name \in {"RSSetViewports", "RSSetScissorRects"}
                                       => PassCalls(k)[i].args = <<1>>
                             /\ Len(Draws) = k

C24_Witness ==
    /\ Rendered
    /\ RenderedPipeline = ViewportPipeline(1, MaxViewports, FALSE)
    /\ renderError = "Expects"
    /\ Len(Draws) = 1

\* The render-target view of output attachment i on the last back buffer:
\* handle 0 is the view of the current back buffer, the handle equal to the
\* number of back buffers is the view of the current back buffer in the
\* second set of views.
ExpectedView(i) ==
    CASE i = 1 -> NumBackBuffers - 1
      [] i = 2 -> 2 * NumBackBuffers - 1
      [] OTHER -> OutputHandle(i)

\* C25: a depth-stencil clear of an output attachment and a color clear of
\* the depth-stencil attachment are fatal; otherwise each output attachment
\* with a color clear records one color clear of its view, in order, the
\* depth-stencil attachment with a depth-stencil clear records one
\* depth-stencil clear, and nothing else is cleared.
C25_ClearsByLoadOp ==
    Rendered =>
        \A ops \in Seqs(LoadOps, MaxAttachments) :
            \A depthOps \in Seqs(LoadOps, 1) :
                RenderedPipeline = AttachmentPipeline(ops, depthOps) =>
                    LET colorClears == Named(renderLog, {"ClearRenderTargetView"})
                        depthClears == Named(renderLog, {"ClearDepthStencilView"})
                        expected ==
                            SelectSeq([i \in 1 .. Len(ops) |->
                                          [view |-> ExpectedView(i), op |-> ops[i]]],
                                      LAMBDA a : a.op = "ClearColor")
                    IN IF \E i \in 1 .. Len(ops) : ops[i] = "ClearDepthStencil"
                       THEN /\ renderError = "RTV should not use clear depth stencil"
                            /\ Draws = <<>>
                       ELSE IF depthOps = <<"ClearColor">>
                       THEN /\ renderError = "DSV should not use clear color"
                            /\ Draws = <<>>
                       ELSE /\ renderError = ""
                            /\ [i \in 1 .. Len(colorClears) |-> colorClears[i].args]
                                 = [i \in 1 .. Len(expected) |-> <<expected[i].view>>]
                            /\ Len(depthClears)
                                 = (IF depthOps = <<"ClearDepthStencil">> THEN 1 ELSE 0)
                            /\ Len(Draws) = 1

C25_Witness ==
    /\ Rendered
    /\ RenderedPipeline = AttachmentPipeline(<<"Load", "ClearColor">>, <<"ClearDepthStencil">>)
    /\ renderError = ""
    /\ Len(Named(renderLog, ClearCommands)) = 2

NotSupportedYet ==
    {"root constants not supported yet", "root cbv not supported yet",
     "root uav not supported yet", "root srv not supported yet"}

\* C27: buildShaderData fails with a 'not supported yet' error whenever the
\* root signature has an entry of type root constants, root CBV, root UAV or
\* root SRV, whatever the entry's update frequency.
C27_RootParametersUnsupported ==
    shaderData # <<>> =>
        ((\E i \in 1 .. Len(rsgTables) : rsgTables[i].mType \in RootOnlyTypes)
            => shaderData[1].err \in NotSupportedYet)

\* The calls made for render-queue entry q of the first subpass of the first
\* pass.
EntryCalls(q) ==
    SelectSeq(renderLog,
              LAMBDA call : Len(call.at) >= 3 /\ call.at[1] = 1 /\ call.at[2] = 1
                            /\ call.at[3] = q)

\* The calls of an entry made before its draw items.
EntryHead(q) == SelectSeq(EntryCalls(q), LAMBDA call : Len(call.at) = 3)

\* C28: every render-queue entry first binds the root signature, then
\* resolves and binds each PerPass table collection of the subpass once, in
\* order, then records its draw items, each draw command coming right after
\* the table bound by its own per-draw resolution; a subpass without entry
\* binds no root signature and resolves nothing.
C28_EntryOrder ==
    Rendered =>
        \A nq \in 0 .. 2 :
            \A nd \in 0 .. 2 :
                \A np \in 0 .. 2 :
                    RenderedPipeline = EntryPipeline(nq, nd, np) =>
                        /\ renderError = ""
                        /\ Len(Named(renderLog, {"SetGraphicsRootSignature"})) = nq
                        /\ nq = 0 => (Tables = <<>> /\ Allocations = <<>> /\ Uploads = <<>>)
                        /\ \A q \in 1 .. nq :
                              /\ EntryCalls(q)[1].name = "SetGraphicsRootSignature"
                              /\ Len(Named(EntryCalls(q), {"SetGraphicsRootSignature"})) = 1
                              /\ [i \in 1 .. Len(Named(EntryHead(q), {"SetGraphicsRootDescriptorTable"})) |->
                                     Named(EntryHead(q), {"SetGraphicsRootDescriptorTable"})[i].args[1]]
                                   = [i \in 1 .. np |-> IF i = 1 THEN 1 ELSE 10 + i]
                              /\ Len(Named(EntryHead(q), {"allocateCircular"})) = (IF np = 0 THEN 0 ELSE 1)
                              /\ \A i \in 1 .. Len(EntryCalls(q)) :
                                    \A j \in 1 .. Len(EntryCalls(q)) :
                                       (i < j /\ Len(EntryCalls(q)[j].at) = 3)
                                           => Len(EntryCalls(q)[i].at) = 3
                              /\ Len(Named(EntryCalls(q), DrawCommands)) = nd
                              /\ \A j \in 1 .. Len(EntryCalls(q)) :
                                    EntryCalls(q)[j].name \in DrawCommands =>
                                        /\ j > 1
                                        /\ EntryCalls(q)[j - 1].name = "SetGraphicsRootDescriptorTable"
                                        /\ EntryCalls(q)[j - 1].at = EntryCalls(q)[j].at

C28_Witness ==
    /\ Rendered
    /\ RenderedPipeline = EntryPipeline(2, 2, 2)
    /\ renderError = ""
    /\ Len(Draws) = 4
    /\ Len(Tables) = 8

\* The state bindings and draws recorded for subpass sp of the first pass,
\* each as <<name, bound state>> (a draw as <<"Draw", 0>>).
StateCalls(sp) ==
    LET calls == SelectSeq(renderLog,
                     LAMBDA call : /\ Len(call.at) >= 2
                                   /\ call.at[1] = 1
                                   /\ call.at[2] = sp
                                   /\ call.name \in DrawCommands
                                        \cup {"SetPipelineState", "IASetPrimitiveTopology"})
    IN [j \in 1 .. Len(calls) |->
           IF calls[j].name \in DrawCommands THEN <<"Draw", 0>>
           ELSE <<calls[j].name, calls[j].args[1]>>]

\* What draw i of the draws d records when states are bound only on change:
\* the topology when it is the first draw or differs from draw i - 1, the
\* pipeline state likewise, then the draw.
ExpectedStateCallsOf(d, i) ==
    (IF i = 1 \/ d[i][1] # d[i - 1][1]
     THEN << <<"IASetPrimitiveTopology", d[i][1]>> >> ELSE <<>>)
    \o (IF i = 1 \/ d[i][2] # d[i - 1][2]
        THEN << <<"SetPipelineState", d[i][2]>> >> ELSE <<>>)
    \o << <<"Draw", 0>> >>

RECURSIVE ExpectedStateCalls(_, _)
ExpectedStateCalls(d, i) ==
    IF i > Len(d) THEN <<>>
    ELSE ExpectedStateCallsOf(d, i) \o ExpectedStateCalls(d, i + 1)

\* C29: within a subpass a draw records SetPipelineState (resp.
\* IASetPrimitiveTopology) exactly when its pipeline state (resp. topology)
\* differs from the previous draw's of the same subpass, and the first draw
\* of every subpass records both.
C29_StateChangeMinimization ==
    Rendered =>
        \A d \in Seqs(DrawStates, 3) :
            RenderedPipeline = StatePipeline(d) =>
                /\ renderError = ""
                /\ StateCalls(1) = ExpectedStateCalls(d, 1)
                /\ StateCalls(2) = ExpectedStateCalls(ReverseDraws(d), 1)

C29_Witness ==
    /\ Rendered
    /\ RenderedPipeline =
           StatePipeline(<< <<D3D_PRIMITIVE_TOPOLOGY_TRIANGLELIST, 1>>,
                            <<D3D_PRIMITIVE_TOPOLOGY_TRIANGLESTRIP, 1>>,
                            <<D3D_PRIMITIVE_TOPOLOGY_TRIANGLELIST, 1>> >>)
    /\ renderError = ""
    /\ Len(Draws) = 6
    /\ Len(Named(renderLog, {"SetPipelineState"})) = 2
    /\ Len(Named(renderLog, {"IASetPrimitiveTopology"})) = 6

\* The calls made for subpass sp of the first pass.
SubpassCalls(sp) ==
    SelectSeq(renderLog,
              LAMBDA call : Len(call.at) >= 2 /\ call.at[1] = 1 /\ call.at[2] = sp)

\* The framebuffer a post-subpass transition names: handle 0 is the current
\* back buffer.
TransitionResource(t) ==
    IF t.mFramebuffer = 0 THEN NumBackBuffers - 1 ELSE t.mFramebuffer

\* C30: a subpass that declares n >= 1 post-subpass transitions records one
\* ResourceBarrier call, after its draws and before every call of the next
\* subpass, carrying the n transitions in declared order with their declared
\* states; a subpass that declares none records no barrier call.
C30_PostSubpassBarrier ==
    Rendered =>
        \A n \in 0 .. 2 :
            \A ts \in Seqs(PostTransitions, MaxTransitions) :
                RenderedPipeline = TransitionPipeline(n, ts) =>
                    /\ renderError = ""
                    /\ Len(Named(SubpassCalls(1), DrawCommands)) = n
                    /\ Named(SubpassCalls(2), {"ResourceBarrier"}) = <<>>
                    /\ Len(Named(SubpassCalls(2), DrawCommands)) = 1
                    /\ Len(Named(PassCalls(1), {"ResourceBarrier"}))
                           = (IF ts = <<>> THEN 0 ELSE 1)
                    /\ ts # <<>> =>
                          /\ SubpassCalls(1)[Len(SubpassCalls(1))].name = "ResourceBarrier"
                          /\ SubpassCalls(1)[Len(SubpassCalls(1))].barriers
                                 = [i \in 1 .. Len(ts) |->
                                       Transition(TransitionResource(ts[i]),
                                                  ts[i].mSource, ts[i].mTarget)]
                    /\ \A i \in 1 .. Len(renderLog) :
                          \A j \in 1 .. Len(renderLog) :
                             (/\ i < j
                              /\ Len(renderLog[i].at) >= 2
                              /\ Len(renderLog[j].at) >= 2
                              /\ renderLog[i].at[1] = 1
                              /\ renderLog[j].at[1] = 1)
                                 => renderLog[i].at[2] <= renderLog[j].at[2]

C30_Witness ==
    /\ Rendered
    /\ renderError = ""
    /\ \E ts \in Seqs(PostTransitions, MaxTransitions) :
          /\ Len(ts) = 2
          /\ ts[1].mFramebuffer = 0
          /\ ts[2].mFramebuffer # 0
          /\ RenderedPipeline = TransitionPipeline(2, ts)
    /\ Len(Named(PassCalls(1), {"ResourceBarrier"})) = 1
    /\ Len(Draws) = 3

\* The view that handle h names on back buffer b of NumBackBuffers.
ResolvedView(h, b) ==
    CASE h = 0 -> b
      [] h = NumBackBuffers -> b + NumBackBuffers
      [] OTHER -> h

\* C31: an output attachment of handle 0 resolves to the view of the current
\* back buffer, of handle equal to the back-buffer count to that view plus
\* the count, of any other handle to the view of that handle; the views are
\* cleared and bound in attachment order.
C31_RenderTargetViews ==
    Rendered =>
        \A hs \in Seqs(OutputHandles, MaxAttachments) :
            RenderedPipeline = HandlePipeline(hs) =>
                LET b == mFrames[FrameIndex].mBackBufferIndex
                    views == [i \in 1 .. Len(hs) |-> ResolvedView(hs[i], b)]
                    clears == Named(renderLog, {"ClearRenderTargetView"})
                    binds == Named(renderLog, {"OMSetRenderTargets"})
                IN /\ renderError = ""
                   /\ mFrames[FrameIndex].mBackBufferCount = NumBackBuffers
                   /\ [i \in 1 .. Len(clears) |-> clears[i].args[1]] = views
                   /\ Len(binds) = (IF hs = <<>> THEN 0 ELSE 1)
                   /\ hs # <<>> => binds[1].args = <<Len(hs), 0>> \o views
                   /\ Len(Draws) = 2

C31_Witness ==
    /\ Rendered
    /\ renderError = ""
    /\ mFrames[FrameIndex].mBackBufferIndex = 0
    /\ RenderedPipeline = HandlePipeline(<<NumBackBuffers, 0>>)
    /\ Len(Named(renderLog, {"OMSetRenderTargets"})) = 1
    /\ Named(renderLog, {"OMSetRenderTargets"})[1].args = <<2, 0, NumBackBuffers, 0>>

\* C32: an object batch whose world transforms or inverse-transpose
\* transforms are not as many as its mesh renderers ends renderFrame with a
\* fatal error before any draw of the batch is recorded; the draws recorded
\* before the batch stay recorded.
C32_BatchLengthsAreFatal ==
    Rendered =>
        \A n \in 0 .. MaxRenderers :
            \A w \in 0 .. (MaxRenderers + 1) :
                \A wi \in 0 .. (MaxRenderers + 1) :
                    RenderedPipeline = LengthPipeline(n, w, wi) =>
                        /\ Len(Named(renderLog, {"DrawInstanced"})) = 1
                        /\ IF w # n \/ wi # n
                           THEN /\ renderError # ""
                                /\ pc = "failed"
                                /\ Named(renderLog, {"DrawIndexedInstanced"}) = <<>>
                                /\ renderLog[Len(renderLog)].name = "DrawInstanced"
                           ELSE /\ renderError = ""
                                /\ Len(Named(renderLog, {"DrawIndexedInstanced"})) = n

C32_Witness ==
    /\ Rendered
    /\ RenderedPipeline = LengthPipeline(2, 2, 1)
    /\ renderError = "Expects"
    /\ Len(Draws) = 1

\* One pipeline per fatal error of renderFrame: a foreign source, a field in
\* the wrong scope, a missing constant buffer, a bad load operation, two
\* viewports, a batch with a transform missing.
FailingBases ==
    {SourcePipeline("FullScreen", "RenderTargetSource", 0),
     CBPipeline("PerPass", 256, <<"WorldView">>),
     MatchPipeline("Batch", <<FALSE>>),
     AttachmentPipeline(<<"ClearDepthStencil">>, <<>>),
     ViewportPipeline(2, 1, FALSE),
     LengthPipeline(1, 0, 1)}

\* C33: a renderFrame that raises a fatal error records nothing after the
\* point of detection (no call of the pass that follows), leaves the command
\* list recording and enqueues nothing on the queue, neither the list nor a
\* fence signal; a renderFrame that raises none records the following pass
\* and submits all it recorded.
C33_FailFastNoSubmit ==
    Rendered =>
        /\ renderError # "" =>
              /\ pc = "failed"
              /\ mFrames[FrameIndex].mCommandListState = "recording"
              /\ queueLog = <<>>
              /\ mDirectQueue = <<>>
              /\ mFence = mFence0
        /\ \A base \in FailBases :
              RenderedPipeline = FailFastPipeline(base) =>
                  /\ base \in FailingBases => renderError # ""
                  /\ IF renderError = ""
                     THEN /\ Len(Named(PassCalls(Len(base.mPasses) + 1), DrawCommands)) = 1
                          /\ pc = "submitted"
                          /\ queueLog # <<>>
                          /\ queueLog[1].cmds = SelectSeq(renderLog, IsCommand)
                     ELSE PassCalls(Len(base.mPasses) + 1) = <<>>

C33_Witness ==
    /\ Rendered
    /\ RenderedPipeline = FailFastPipeline(ViewportPipeline(2, 1, FALSE))
    /\ renderError = "Expects"
    /\ pc = "failed"
    /\ Len(Draws) = 1
    /\ queueLog = <<>>

\* The initPipeline calls that have returned, and those that have submitted.
InitsDone == Len(beginLog) - (IF pc \in {"begun", "submitted"} THEN 1 ELSE 0)

InitsSubmitted == Len(beginLog) - (IF pc = "begun" THEN 1 ELSE 0)

\* C34: every initPipeline call is one frame cycle without draws: it begins
\* one frame (the k-th call takes fence value F0 + k - 1 and slot
\* (k - 1) mod R and advances both allocators once), submits one command
\* list that holds transition barriers only, and then enqueues one signal of
\* that frame's fence value, right after the list.
C34_InitPipelineIsOneCycle ==
    /\ mNextFrameFence - mFence0 = Len(beginLog) + (IF pc = "waiting" THEN 1 ELSE 0)
    /\ mNextFrameIndex = (mNextFrameFence - mFence0) % mFrameQueueSize
    /\ mDescriptors.advances = Len(beginLog)
    /\ mUploadBuffer.advances = Len(beginLog)
    /\ Len(queueLog) = InitsDone + InitsSubmitted
    /\ \A k \in 1 .. Len(beginLog) :
          /\ beginLog[k] = [slot |-> (k - 1) % mFrameQueueSize, fence |-> mFence0 + k - 1]
          /\ k <= InitsSubmitted =>
                /\ queueLog[2 * k - 1].type = "exec"
                /\ queueLog[2 * k - 1].slot = beginLog[k].slot
                /\ queueLog[2 * k - 1].value = beginLog[k].fence
                /\ \A i \in 1 .. Len(queueLog[2 * k - 1].cmds) :
                      /\ queueLog[2 * k - 1].cmds[i].name = "ResourceBarrier"
                      /\ Len(queueLog[2 * k - 1].cmds[i].barriers) = 1
          /\ k <= InitsDone => queueLog[2 * k] = SignalItem(beginLog[k].fence)
    /\ pc \in {"begun", "submitted"} =>
          /\ op = "init"
          /\ pc = "submitted" =>
                Len(queueLog[Len(queueLog)].cmds)
                    = Len(SelectSeq(swapChain.mPipeline.mRTVInitialStates,
                                    LAMBDA state : state \notin {RESOURCE_STATE_COMMON,
                                                                 RESOURCE_STATE_RENDER_TARGET}))

C34_Witness ==
    /\ pc = "idle"
    /\ Len(beginLog) = 2
    /\ mFrameQueueSize = 2
    /\ Len(queueLog) = 4
    /\ Len(queueLog[3].cmds) = 2
    /\ queueLog[4] = SignalItem(mFence0 + 1)

\* C35: when every frame is ended before the frame that reuses its slot is
\* begun and the GPU completes every enqueued signal, every beginFrame call
\* returns; and the first R calls find their wait satisfied already.
C35_BeginFrameReturns ==
    /\ (pc = "waiting") ~> (pc = "idle")
    /\ [](pc = "waiting" /\ mNextFrameFence - mFence0 <= mFrameQueueSize
            => waitForFence(mFence, mFrames[FrameIndex].mFrameFenceId))

\* The slots beginFrame has returned so far.
BegunSlots == {beginLog[i].slot : i \in 1 .. Len(beginLog)}

C37_FrameEffects ==
    [][/\ pc = "idle" => mFrames' = mFrames
       /\ pc = "waiting" =>
             /\ \A s \in DOMAIN mFrames : s # FrameIndex => mFrames'[s] = mFrames[s]
             /\ pc' = "begun" =>
                   /\ mFrames'[FrameIndex].mFrameFenceId = FrameFence
                   /\ mFrames'[FrameIndex].mBackBufferIndex = swapChain.mBackBufferIndex
                   /\ mFrames'[FrameIndex].mCommandListState = "recording"
                   /\ mFrames'[FrameIndex].mPipeline = swapChain.mPipeline
             /\ mNextFrameFence' = mNextFrameFence
             /\ mNextFrameIndex' = mNextFrameIndex
       /\ pc \in {"begun", "submitted"} =>
             /\ \A s \in DOMAIN mFrames :
                   mFrames'[s].mFrameFenceId = mFrames[s].mFrameFenceId
             /\ mNextFrameFence' = mNextFrameFence
             /\ mNextFrameIndex' = mNextFrameIndex]_vars

C37_Witness ==
    /\ pc = "begun"
    /\ mFrameQueueSize = 2
    /\ Len(beginLog) = 2
    /\ FrameIndex = 1
    /\ mFrames[0].mFrameFenceId = mFence0
    /\ mFrames[1].mFrameFenceId = mFence0 + 1
    /\ mFrames[0].mBackBufferIndex # mFrames[1].mBackBufferIndex
    /\ mFrames[0].mPipeline # mFrames[1].mPipeline

BeginFrameFailed == pc \in {"wait failed", "reset failed"}

\* C38: a beginFrame that fails in the fence wait or in the reset has
\* consumed one fence value and one ring slot and the counters stay
\* advanced; the allocators are not advanced, no context is returned, and
\* when the failure is in the wait the slot keeps its previous fence value.
C38_FailedBeginFrameConsumes ==
    /\ [](BeginFrameFailed =>
             /\ mNextFrameFence = FrameFence + 1
             /\ mNextFrameIndex = (FrameIndex + 1) % mFrameQueueSize
             /\ mNextFrameFence - mFence0 = Len(beginLog) + 1
             /\ mDescriptors.advances = Len(beginLog)
             /\ mUploadBuffer.advances = Len(beginLog))
    /\ [][BeginFrameFailed' /\ ~BeginFrameFailed =>
             /\ pc = "waiting"
             /\ mNextFrameFence' = mNextFrameFence
             /\ mNextFrameIndex' = mNextFrameIndex
             /\ mDescriptors' = mDescriptors
             /\ mUploadBuffer' = mUploadBuffer
             /\ beginLog' = beginLog
             /\ pc' = "wait failed" => mFrames' = mFrames
             /\ pc' = "reset failed" => mFrames'[FrameIndex].mFrameFenceId = FrameFence]_vars

C38_Witness ==
    /\ pc = "wait failed"
    /\ mFrameQueueSize = 2
    /\ Len(beginLog) = 2
    /\ FrameIndex = 0
    /\ mNextFrameIndex = 1
    /\ mNextFrameFence = mFence0 + 3
    /\ mFrames[0].mFrameFenceId = mFence0
    /\ mDescriptors.advances = 2

\* ---------------------------------------------------------------- C39
\* The allocateCircular call that precedes position i of the frame's log.
RECURSIVE AllocationBefore(_)
AllocationBefore(i) ==
    IF i = 0 THEN 0
    ELSE IF renderLog[i].name = "allocateCircular" THEN i
    ELSE AllocationBefore(i - 1)

\* The view written at position i lies inside the range the list's
\* allocateCircular(capacity) returned.
ViewInsideAllocation(i) ==
    /\ AllocationBefore(i) # 0
    /\ renderLog[i].args[1] >= renderLog[AllocationBefore(i)].args[2]
    /\ renderLog[i].args[1] <
           renderLog[AllocationBefore(i)].args[2] + renderLog[AllocationBefore(i)].args[1]

\* C39: every constant-buffer-view descriptor written while resolving a
\* Dynamic resource-view list lies inside the range allocated for the list
\* (write offset < declared capacity), for every binding description the
\* resolver accepts.
C39_ViewsInsideAllocation ==
    RenderedOK =>
        \A i \in 1 .. Len(renderLog) :
            IsView(renderLog[i]) => ViewInsideAllocation(i)

\* ---------------------------------------------------------------- C40
\* C40: in buildShaders and buildShaderData the subpass at 0-based position
\* i of a pass is looked up in the shader group under the program name
\* "<i>/<pass name, or @ when it is empty>/<prototype name>", for every i
\* from 0 to the number of subpasses minus 1, and one subpass data entry is
\* appended per subpass in the same order.
C40_SubpassProgramNames ==
    passData # <<>> =>
        /\ passData[1].names =
               [i \in 1 .. Len(shaderPass.pass) |->
                   ShaderName(i - 1, shaderPass.passName, shaderPass.prototypeName)]
        /\ Len(passData[1].mSubpasses) = Len(shaderPass.pass)
        /\ \A i \in 1 .. Len(shaderPass.pass) :
              passData[1].mSubpasses[i].subpass = shaderPass.pass[i]

====
